---- MODULE Spec2Model ----
(***************************************************************************)
(* Model of the Symon dialogue engine (src/src/bot.ts) and of its          *)
(* conversation routine (class Routine, src/src/shell.ts lines 87-173).    *)
(*                                                                         *)
(* The program is JavaScript: one thread, a FIFO queue of promise jobs     *)
(* (microtasks).  Every `await` and every promise reaction of the code is  *)
(* one job of the queue `mq`; the synchronous part of a function is        *)
(* executed inside the step that calls it.  A call made without `await`    *)
(* (bot.ts lines 284 and 310) runs its synchronous part in the caller's    *)
(* step and leaves its continuation to the queue, with nobody waiting.     *)
(***************************************************************************)
EXTENDS Integers, Sequences, FiniteSets, TLC

VARIABLES
    convos,     \* Bot.convos   : user id -> stored routine (0: none)
    stores,     \* Bot.stores   : user id -> store
    locks,      \* Bot.convoLock: user id -> holder and waiting calls
    calls,      \* the Bot.process calls made so far
    routines,   \* the Routine objects constructed so far
    frames,     \* the Routine.process calls made so far (promise + awaiter)
    mq,         \* the promise job queue of the JavaScript engine
    actor,      \* the user id on whose behalf the last step ran
    drv,        \* the direct caller of Routine.process or of Bot.classify
    middlewares, \* Bot.middlewares: the registered middlewares, in order
    setup,      \* Bot.docs and the classifier's training pairs (SetupSpec)
    classifier, \* Bot.classifier: class Classifier (classifier.ts 55-214)
    entityManager \* Bot.entityManager: class EntityManager (entity.ts 81-152)

vars == <<convos, stores, locks, calls, routines, frames, mq, actor, drv, middlewares,
          setup, classifier, entityManager>>

-----------------------------------------------------------------------------
(* Bounds of the model *)

MaxCalls == 3          \* Bot.process calls in one run
MaxRoutines == 4       \* Routine objects constructed in one run
MaxUsersCalls == 2     \* Bot.process calls in one run with two users
MaxDriverCalls == 4    \* Routine.process calls of the stand-alone caller

-----------------------------------------------------------------------------
(* Values *)

Users == {"A", "B"}
NoUser == "-"
Undefined == "undefined"    \* the value `undefined`
Null == "null"              \* the value `null` (BotResponse.answer, intent)
Failure == "error"          \* the Error thrown by a script

(* A script is the sequence of things a handler does. *)
Yield(a) == [op |-> "yield", answer |-> a]   \* await ctx.yield / ask / say
Wait == [op |-> "wait", answer |-> ""]       \* await of anything else
Throw == [op |-> "throw", answer |-> ""]     \* throw new Error(..)
Store == [op |-> "store", answer |-> ""]     \* ctx.store.name = <last input>.text

(* The documents registered with the bot: bot.ts addDocument, BotDocument. *)
Docs ==
    [ greet   |-> [hasAnswers |-> FALSE, answers |-> <<>>, hasHandler |-> TRUE,
                   handler |-> <<Yield("p"), Store, Yield("r")>>],
      empty   |-> [hasAnswers |-> FALSE, answers |-> <<>>, hasHandler |-> TRUE,
                   handler |-> <<>>],
      boom    |-> [hasAnswers |-> FALSE, answers |-> <<>>, hasHandler |-> TRUE,
                   handler |-> <<Throw>>],
      askboom |-> [hasAnswers |-> FALSE, answers |-> <<>>, hasHandler |-> TRUE,
                   handler |-> <<Yield("q"), Throw>>],
      slow    |-> [hasAnswers |-> FALSE, answers |-> <<>>, hasHandler |-> TRUE,
                   handler |-> <<Wait, Yield("p"), Yield("r")>>],
      bye     |-> [hasAnswers |-> TRUE, answers |-> <<"bye1", "bye2">>,
                   hasHandler |-> FALSE, handler |-> <<>>],
      both    |-> [hasAnswers |-> TRUE, answers |-> <<"both1", "both2">>,
                   hasHandler |-> TRUE, handler |-> <<Yield("h")>>],
      plain   |-> [hasAnswers |-> FALSE, answers |-> <<>>,
                   hasHandler |-> FALSE, handler |-> <<>>] ]

(* The texts of one user's run; the document with both answers and a     *)
(* handler is requested in BothSpec.                                      *)
Texts == (DOMAIN Docs \ {"both"}) \cup {"other"}

(* Bot.classify: the accepted intent of a request text (null when none). *)
Intent(text) == IF text \in DOMAIN Docs THEN text ELSE Null

-----------------------------------------------------------------------------
(* The program state as one record, so that a synchronous call chain         *)
(* (processAnswer -> Routine.process -> script -> yield -> resolve) is a     *)
(* composition of operators.  `ok` turns FALSE when a bound is exceeded.     *)

St == [convos |-> convos, stores |-> stores, locks |-> locks, calls |-> calls,
       routines |-> routines, frames |-> frames, mq |-> mq, ok |-> TRUE]

Commit(s) ==
    \E t \in {s} :      \* the new state is computed once
        /\ t.ok
        /\ convos' = t.convos
        /\ stores' = t.stores
        /\ locks' = t.locks
        /\ calls' = t.calls
        /\ routines' = t.routines
        /\ frames' = t.frames
        /\ mq' = t.mq
        /\ UNCHANGED <<middlewares, setup, classifier, entityManager>>

(* Enqueue a promise job: a reaction of a settled promise, or the           *)
(* continuation of an `await`.                                              *)
Enq(s, k, id, data) ==
    [s EXCEPT !.mq = Append(@, [k |-> k, id |-> id, data |-> data])]

Job(k) == mq # <<>> /\ Head(mq).k = k
Pop(s) == [s EXCEPT !.mq = Tail(@)]

(* A store object: `id` tells the objects apart (the routine for which    *)
(* the object was made), `name` is the key a handler writes.               *)
NoStore == [exists |-> FALSE, id |-> 0, name |-> 0]
EmptyStore == [exists |-> TRUE, id |-> 0, name |-> 0]

-----------------------------------------------------------------------------
(* class Routine *)

(* resolve / reject of the promise made by Routine.process call f.  Frame 0 *)
(* stands for the initial no-op callbacks; settling a settled promise does  *)
(* nothing.  A registered reaction becomes a job.                           *)
SettleP(s, f, st, val) ==
    IF f = 0 \/ s.frames[f].st # "pending" THEN s
    ELSE LET s1 == [s EXCEPT !.frames[f].st = st, !.frames[f].val = val]
         IN  IF s.frames[f].reg THEN Enq(s1, "settle", f, 0) ELSE s1

(* Routine.yield: yieldToScript = resolve; yieldToGlobal(data). *)
RoutineYield(s, r, data) ==
    SettleP([s EXCEPT !.routines[r].yts = "pending"], s.routines[r].ytg, "ok", data)

(* The script (the handler) runs from its position to its next await. *)
RECURSIVE RunScript(_, _)
RunScript(s, r) ==
    LET rt == s.routines[r] IN
    IF rt.pc > Len(rt.script)
    THEN Enq(s, "catch", r, 0)
    ELSE LET step == rt.script[rt.pc]
             s1 == [s EXCEPT !.routines[r].pc = @ + 1]
         IN  CASE step.op = "yield" -> RoutineYield(s1, r, step.answer)
               [] step.op = "wait"  -> [s1 EXCEPT !.routines[r].waiting = TRUE]
               [] step.op = "throw" ->
                    Enq([s1 EXCEPT !.routines[r].pc = Len(rt.script) + 1,
                                   !.routines[r].failed = TRUE,
                                   !.calls = IF rt.owner # 0
                                             THEN [@ EXCEPT ![rt.turn].threw = TRUE]
                                             ELSE @],
                        "catch", r, 1)
               [] step.op = "store" ->
                    RunScript(IF s.stores[rt.user].id = rt.store
                              THEN [s1 EXCEPT !.stores[rt.user].name = rt.last]
                              ELSE s1, r)

(* Routine.process that runs the script again once it has finished. *)
RoutineProcessRerun(s, r, data, f) ==
    LET rt == s.routines[r]
        s1 == IF rt.resolved \/ ~rt.started
              THEN RunScript([s EXCEPT !.routines[r].ytg = f,
                                       !.routines[r].ttg = f,
                                       !.routines[r].pc = 1,
                                       !.routines[r].resolved = FALSE,
                                       !.routines[r].started = TRUE,
                                       !.routines[r].runs = @ + 1,
                                       !.routines[r].turn = data], r)
              ELSE LET s2 == [s EXCEPT !.routines[r].ytg = f,
                                       !.routines[r].ttg = f]
                   IN  IF rt.yts = "pending"
                       THEN Enq([s2 EXCEPT !.routines[r].yts = "used",
                                           !.routines[r].turn = data],
                                IF rt.owner = 0 THEN "resume" ELSE "arrow", r, data)
                       ELSE s2
    IN  Enq(s1, "thenable", f, 0)

(* Routine.process that hands the script the input of the call before. *)
RoutineProcessStale(s, r, data, f) ==
    LET rt == s.routines[r]
        s1 == IF rt.resolved
              THEN SettleP(s, f, "ok", Undefined)
              ELSE IF ~rt.started
              THEN RunScript([s EXCEPT !.routines[r].ytg = f,
                                       !.routines[r].ttg = f,
                                       !.routines[r].started = TRUE,
                                       !.routines[r].runs = @ + 1,
                                       !.routines[r].turn = data], r)
              ELSE LET s2 == [s EXCEPT !.routines[r].ytg = f,
                                       !.routines[r].ttg = f]
                   IN  IF rt.yts = "pending"
                       THEN Enq([s2 EXCEPT !.routines[r].yts = "used",
                                           !.routines[r].turn = data],
                                IF rt.owner = 0 THEN "resume" ELSE "arrow", r, rt.turn)
                       ELSE s2
    IN  Enq(s1, "thenable", f, 0)

(* Routine.process that rejects a call made after the script has failed. *)
RoutineProcessRethrow(s, r, data, f) ==
    LET rt == s.routines[r]
        s1 == IF rt.resolved
              THEN SettleP(s, f, IF rt.failed THEN "err" ELSE "ok",
                           IF rt.failed THEN Failure ELSE Undefined)
              ELSE IF ~rt.started
              THEN RunScript([s EXCEPT !.routines[r].ytg = f,
                                       !.routines[r].ttg = f,
                                       !.routines[r].started = TRUE,
                                       !.routines[r].runs = @ + 1,
                                       !.routines[r].turn = data], r)
              ELSE LET s2 == [s EXCEPT !.routines[r].ytg = f,
                                       !.routines[r].ttg = f]
                   IN  IF rt.yts = "pending"
                       THEN Enq([s2 EXCEPT !.routines[r].yts = "used",
                                           !.routines[r].turn = data],
                                IF rt.owner = 0 THEN "resume" ELSE "arrow", r, data)
                       ELSE s2
    IN  Enq(s1, "thenable", f, 0)

(* Routine.process(data), the promise executor, then the return of the     *)
(* async function (its promise adopts the executor's promise by a job).    *)
RoutineProcess(s, r, data, f) ==
    LET rt == s.routines[r]
        s1 == IF rt.resolved
              THEN SettleP(s, f, "ok", Undefined)
              ELSE IF ~rt.started
              THEN RunScript([s EXCEPT !.routines[r].ytg = f,
                                       !.routines[r].ttg = f,
                                       !.routines[r].started = TRUE,
                                       !.routines[r].runs = @ + 1,
                                       !.routines[r].turn = data], r)
              ELSE LET s2 == [s EXCEPT !.routines[r].ytg = f,
                                       !.routines[r].ttg = f]
                   IN  IF rt.yts = "pending"
                       THEN Enq([s2 EXCEPT !.routines[r].yts = "used",
                                           !.routines[r].turn = data],
                                IF rt.owner = 0 THEN "resume" ELSE "arrow", r, data)
                       ELSE s2
    IN  Enq(s1, "thenable", f, 0)

NewRoutine(owner, user, script) ==
    [owner |-> owner, user |-> user, script |-> script, pc |-> 1,
     started |-> FALSE, resolved |-> FALSE, ytg |-> 0, ttg |-> 0,
     yts |-> "noop", waiting |-> FALSE, failed |-> FALSE,
     last |-> 0, got |-> <<>>, turn |-> 0, runs |-> 0, store |-> 0]

NewFrame(c, r, awaited) ==
    [call |-> c, routine |-> r, st |-> "pending", val |-> Undefined,
     reg |-> FALSE, awaited |-> awaited, open |-> TRUE, sawFailed |-> FALSE,
     sawDone |-> FALSE]

-----------------------------------------------------------------------------
(* class Bot *)

(* processAnswer that makes a store for the user in every case. *)
RECURSIVE ProcessAnswerEager(_, _, _, _)
ProcessAnswerEager(s, c, awaited, pick) ==
    LET u == s.calls[c].user
        intent == Intent(s.calls[c].text)
        hasDoc == intent # Null
        convo == s.convos[u]
        after(x) == IF awaited THEN Enq(x, "afterAnswer", c, 0) ELSE x
    IN  IF convo # 0
        THEN RoutineProcess([s EXCEPT !.frames =
                                Append(@, [NewFrame(c, convo, awaited) EXCEPT
                                             !.sawFailed = s.routines[convo].failed])],
                            convo, c, Len(s.frames) + 1)
        ELSE IF hasDoc /\ Docs[intent].hasAnswers
        THEN after([s EXCEPT !.calls[c].answer =
                        Docs[intent].answers[((pick - 1) % Len(Docs[intent].answers)) + 1]])
        ELSE IF hasDoc /\ Docs[intent].hasHandler
        THEN IF Len(s.routines) >= MaxRoutines
             THEN [s EXCEPT !.ok = FALSE]
             ELSE LET r == Len(s.routines) + 1
                      store == IF s.stores[u].exists THEN s.stores[u]
                               ELSE [EmptyStore EXCEPT !.id = r]
                      s1 == [s EXCEPT
                               !.routines = Append(@, [NewRoutine(c, u, Docs[intent].handler)
                                                         EXCEPT !.store = store.id]),
                               !.convos[u] = r,
                               !.stores[u] = store]
                  IN  after(ProcessAnswerEager(s1, c, FALSE, pick))
        ELSE after([s EXCEPT !.stores[u] = IF @.exists THEN @ ELSE EmptyStore])

(* processAnswer that makes a new store for every conversation. *)
RECURSIVE ProcessAnswerNewStore(_, _, _, _)
ProcessAnswerNewStore(s, c, awaited, pick) ==
    LET u == s.calls[c].user
        intent == Intent(s.calls[c].text)
        hasDoc == intent # Null
        convo == s.convos[u]
        after(x) == IF awaited THEN Enq(x, "afterAnswer", c, 0) ELSE x
    IN  IF convo # 0
        THEN RoutineProcess([s EXCEPT !.frames =
                                Append(@, [NewFrame(c, convo, awaited) EXCEPT
                                             !.sawFailed = s.routines[convo].failed])],
                            convo, c, Len(s.frames) + 1)
        ELSE IF hasDoc /\ Docs[intent].hasAnswers
        THEN after([s EXCEPT !.calls[c].answer =
                        Docs[intent].answers[((pick - 1) % Len(Docs[intent].answers)) + 1]])
        ELSE IF hasDoc /\ Docs[intent].hasHandler
        THEN IF Len(s.routines) >= MaxRoutines
             THEN [s EXCEPT !.ok = FALSE]
             ELSE LET r == Len(s.routines) + 1
                      store == [EmptyStore EXCEPT !.id = r]
                      s1 == [s EXCEPT
                               !.routines = Append(@, [NewRoutine(c, u, Docs[intent].handler)
                                                         EXCEPT !.store = store.id]),
                               !.convos[u] = r,
                               !.stores[u] = store]
                  IN  after(ProcessAnswerNewStore(s1, c, FALSE, pick))
        ELSE after(s)

(* processAnswer that looks at the document's handler before its answers. *)
RECURSIVE ProcessAnswerHandlerFirst(_, _, _, _)
ProcessAnswerHandlerFirst(s, c, awaited, pick) ==
    LET u == s.calls[c].user
        intent == Intent(s.calls[c].text)
        hasDoc == intent # Null
        convo == s.convos[u]
        after(x) == IF awaited THEN Enq(x, "afterAnswer", c, 0) ELSE x
    IN  IF convo # 0
        THEN RoutineProcess([s EXCEPT !.frames =
                                Append(@, [NewFrame(c, convo, awaited) EXCEPT
                                             !.sawFailed = s.routines[convo].failed])],
                            convo, c, Len(s.frames) + 1)
        ELSE IF hasDoc /\ Docs[intent].hasHandler
        THEN IF Len(s.routines) >= MaxRoutines
             THEN [s EXCEPT !.ok = FALSE]
             ELSE LET r == Len(s.routines) + 1
                      store == IF s.stores[u].exists THEN s.stores[u]
                               ELSE [EmptyStore EXCEPT !.id = r]
                      s1 == [s EXCEPT
                               !.routines = Append(@, [NewRoutine(c, u, Docs[intent].handler)
                                                         EXCEPT !.store = store.id]),
                               !.convos[u] = r,
                               !.stores[u] = store]
                  IN  after(ProcessAnswerHandlerFirst(s1, c, FALSE, pick))
        ELSE IF hasDoc /\ Docs[intent].hasAnswers
        THEN after([s EXCEPT !.calls[c].answer =
                        Docs[intent].answers[((pick - 1) % Len(Docs[intent].answers)) + 1]])
        ELSE after(s)

(* Bot.processAnswer up to its first await.  `awaited` tells whether the   *)
(* caller awaits the returned promise (bot.ts line 242) or drops it (lines *)
(* 284 and 310); `pick` is the choice made by lodash sample.               *)
RECURSIVE ProcessAnswer(_, _, _, _)
ProcessAnswer(s, c, awaited, pick) ==
    LET u == s.calls[c].user
        intent == Intent(s.calls[c].text)
        hasDoc == intent # Null
        convo == s.convos[u]
        after(x) == IF awaited THEN Enq(x, "afterAnswer", c, 0) ELSE x
    IN  IF convo # 0
        THEN RoutineProcess([s EXCEPT !.frames =
                                Append(@, [NewFrame(c, convo, awaited) EXCEPT
                                             !.sawFailed = s.routines[convo].failed])],
                            convo, c, Len(s.frames) + 1)
        ELSE IF hasDoc /\ Docs[intent].hasAnswers
        THEN after([s EXCEPT !.calls[c].answer =
                        Docs[intent].answers[((pick - 1) % Len(Docs[intent].answers)) + 1]])
        ELSE IF hasDoc /\ Docs[intent].hasHandler
        THEN IF Len(s.routines) >= MaxRoutines
             THEN [s EXCEPT !.ok = FALSE]
             ELSE LET r == Len(s.routines) + 1
                      store == IF s.stores[u].exists THEN s.stores[u]
                               ELSE [EmptyStore EXCEPT !.id = r]
                      s1 == [s EXCEPT
                               !.routines = Append(@, [NewRoutine(c, u, Docs[intent].handler)
                                                         EXCEPT !.store = store.id]),
                               !.convos[u] = r,
                               !.stores[u] = store]
                  IN  after(ProcessAnswer(s1, c, FALSE, pick))
        ELSE after(s)

(* processAnswer that clears the routines of every user. *)
ContinueAnswerAllUsers(s, f, pick) ==
    LET fr == s.frames[f]
        c == fr.call
        s0 == [s EXCEPT !.frames[f].open = FALSE,
                        !.frames[f].sawDone = s.routines[fr.routine].resolved]
        after(x) == IF fr.awaited THEN Enq(x, "afterAnswer", c, 0) ELSE x
    IN  IF fr.st = "err"
        THEN after([s0 EXCEPT !.calls[c].err = IF fr.awaited THEN TRUE ELSE @,
                              !.calls[c].lost = IF fr.awaited THEN @ ELSE TRUE])
        ELSE IF fr.val # Undefined /\ ~s.routines[fr.routine].resolved
        THEN after([s0 EXCEPT !.calls[c].answer = fr.val])
        ELSE after(ProcessAnswer([s0 EXCEPT !.convos = [v \in Users |-> 0],
                                            !.calls[c].reruns = @ + 1],
                                 c, FALSE, pick))

(* processAnswer that discards the routine whatever it yielded. *)
ContinueAnswerAlwaysFresh(s, f, pick) ==
    LET fr == s.frames[f]
        c == fr.call
        u == s.calls[c].user
        s0 == [s EXCEPT !.frames[f].open = FALSE,
                        !.frames[f].sawDone = s.routines[fr.routine].resolved]
        after(x) == IF fr.awaited THEN Enq(x, "afterAnswer", c, 0) ELSE x
    IN  IF fr.st = "err"
        THEN after([s0 EXCEPT !.calls[c].err = IF fr.awaited THEN TRUE ELSE @,
                              !.calls[c].lost = IF fr.awaited THEN @ ELSE TRUE])
        ELSE after(ProcessAnswer([s0 EXCEPT !.convos[u] = 0,
                                            !.calls[c].reruns = @ + 1],
                                 c, FALSE, pick))

(* Bot.processAnswer after `await convo.process(req)` (bot.ts 280-285). *)
ContinueAnswer(s, f, pick) ==
    LET fr == s.frames[f]
        c == fr.call
        u == s.calls[c].user
        s0 == [s EXCEPT !.frames[f].open = FALSE,
                        !.frames[f].sawDone = s.routines[fr.routine].resolved]
        after(x) == IF fr.awaited THEN Enq(x, "afterAnswer", c, 0) ELSE x
    IN  IF fr.st = "err"
        THEN after([s0 EXCEPT !.calls[c].err = IF fr.awaited THEN TRUE ELSE @,
                              !.calls[c].lost = IF fr.awaited THEN @ ELSE TRUE])
        ELSE IF fr.val # Undefined /\ ~s.routines[fr.routine].resolved
        THEN after([s0 EXCEPT !.calls[c].answer = fr.val])
        ELSE after(ProcessAnswer([s0 EXCEPT !.convos[u] = 0,
                                            !.calls[c].reruns = @ + 1],
                                 c, FALSE, pick))

NewCall(u, t, phase) ==
    [user |-> u, text |-> t, phase |-> phase, answer |-> Null, out |-> "pending",
     err |-> FALSE, lost |-> FALSE, threw |-> FALSE, reruns |-> 0, ran |-> <<>>,
     trained |-> classifier.ready]

-----------------------------------------------------------------------------
(* Steps of the bot *)

Picks == {1, 2}

(* The documents handed to Bot.addDocument while the bot is set up: `v`   *)
(* tells two documents with one intent apart.  The conversations of the    *)
(* other specifications start after the set-up, with the documents Docs.   *)
SetupDocs == [intent : {"greet", "slow", "bye"}, v : {1, 2}]
NoSetup == [docs |-> [i \in {"greet", "slow", "bye"} |-> 0], samples |-> <<>>, log |-> <<>>]
Idle == [ins |-> <<>>, outs |-> <<>>, busy |-> FALSE]

(* new EntityManager(): no extractor is registered; `log` keeps the       *)
(* outcome of every addEntity and removeEntity call.                       *)
NoEntities == [extractors |-> <<>>, log |-> <<>>]

(* new Classifier(): `docs` are the training pairs of the external         *)
(* classifier (classifier.docs), `ready` is classifierReady, `queue` holds  *)
(* the tasks pushed to classifierQueue in the order of the pushes, `texts`  *)
(* the pending and returned classifyText calls of several sentences, `log`  *)
(* keeps the outcome of every call made to the classifier.                  *)
Untrained == [docs |-> <<>>, ready |-> FALSE, queue |-> <<>>, texts |-> <<>>, log |-> <<>>]

(* The classifier after Bot.addDocument of every document of Docs and      *)
(* Bot.train: the conversations start from here.                            *)
Trained ==
    [docs |-> <<"greet", "empty", "boom", "askboom", "slow", "bye", "plain">>,
     ready |-> TRUE, queue |-> <<>>, texts |-> <<>>, log |-> <<>>]

(* A lock shared by all users. *)
LockKeyShared(u) == "A"

(* Bot.process up to convoLock.acquire (bot.ts 238-240).  async-lock runs   *)
(* the callback at once when the key is free and queues it otherwise.       *)
LockKey(u) == u

Request(u, t) ==
    /\ LET c == Len(calls) + 1
           k == LockKey(u)
       IN  IF locks[k].holder = 0
           THEN /\ locks' = [locks EXCEPT ![k].holder = c]
                /\ calls' = Append(calls, NewCall(u, t, "classify"))
           ELSE /\ locks' = [locks EXCEPT ![k].q = Append(@, c)]
                /\ calls' = Append(calls, NewCall(u, t, "queued"))
    /\ actor' = u
    /\ UNCHANGED <<convos, stores, routines, frames, mq, drv, middlewares, setup, classifier, entityManager>>

(* `await this.classify(req)` returns; processAnswer is called and awaited *)
(* (bot.ts 241-242).                                                        *)
ClassifyDone(c) ==
    /\ c \in DOMAIN calls
    /\ calls[c].phase = "classify"
    /\ classifier.ready
    /\ \E pick \in Picks :
         Commit(ProcessAnswer([St EXCEPT !.calls[c].phase = "answer"], c, TRUE, pick))
    /\ actor' = calls[c].user
    /\ UNCHANGED drv

(* The awaited thing of a handler's `wait` step completes. *)
Wake(r) ==
    /\ r \in DOMAIN routines
    /\ routines[r].waiting
    /\ Commit(RunScript([St EXCEPT !.routines[r].waiting = FALSE], r))
    /\ actor' = routines[r].user
    /\ UNCHANGED drv

(* The promise of the async function Routine.process adopts the promise of *)
(* its executor: the reaction is registered one job after the call.        *)
RunThenable ==
    /\ Job("thenable")
    /\ LET f == Head(mq).id
           s1 == [Pop(St) EXCEPT !.frames[f].reg = TRUE]
       IN  /\ Commit(IF frames[f].st # "pending" THEN Enq(s1, "settle", f, 0) ELSE s1)
           /\ actor' = routines[frames[f].routine].user
    /\ UNCHANGED drv

(* The adopted promise settles; the awaiting function is scheduled. *)
RunSettle ==
    /\ Job("settle")
    /\ Commit(Enq(Pop(St), "cont", Head(mq).id, 0))
    /\ actor' = routines[frames[Head(mq).id].routine].user
    /\ UNCHANGED drv

(* processAnswer continues after `await convo.process(req)`. *)
RunCont ==
    /\ Job("cont")
    /\ frames[Head(mq).id].call # 0
    /\ \E pick \in Picks : Commit(ContinueAnswer(Pop(St), Head(mq).id, pick))
    /\ actor' = calls[frames[Head(mq).id].call].user
    /\ UNCHANGED drv

(* The arrow function `ask` / `say` continues after `await ctx.yield(..)`  *)
(* (bot.ts 304-305) and returns to the handler.                             *)
RunArrow ==
    /\ Job("arrow")
    /\ Commit(Enq(Pop(St), "resume", Head(mq).id, Head(mq).data))
    /\ actor' = routines[Head(mq).id].user
    /\ UNCHANGED drv

(* The script continues with the input its yield resolved to. *)
RunResume ==
    /\ Job("resume")
    /\ LET r == Head(mq).id
           d == Head(mq).data
       IN  /\ Commit(RunScript([Pop(St) EXCEPT !.routines[r].last = d,
                                               !.routines[r].got = Append(@, d)], r))
           /\ actor' = routines[r].user
    /\ UNCHANGED drv

(* A catch callback that swallows the error of the script. *)
RunCatchSwallow ==
    /\ Job("catch")
    /\ LET r == Head(mq).id
       IN  /\ Commit(Enq(Pop(St), "finally", r, 0))
           /\ actor' = routines[r].user
    /\ UNCHANGED drv

(* script(ctx).catch(error => this.throwToGlobal(error))  (shell.ts 100-102) *)
RunCatch ==
    /\ Job("catch")
    /\ LET r == Head(mq).id
           s1 == IF Head(mq).data = 1
                 THEN SettleP(Pop(St), routines[r].ttg, "err", Failure)
                 ELSE Pop(St)
       IN  /\ Commit(Enq(s1, "finally", r, 0))
           /\ actor' = routines[r].user
    /\ UNCHANGED drv

(* .finally(() => { scriptResolved = true; yieldToGlobal(undefined) })     *)
(* (shell.ts 103-106)                                                       *)
RunFinally ==
    /\ Job("finally")
    /\ LET r == Head(mq).id
       IN  /\ Commit(SettleP([Pop(St) EXCEPT !.routines[r].resolved = TRUE],
                             routines[r].ytg, "ok", Undefined))
           /\ actor' = routines[r].user
    /\ UNCHANGED drv

(* middleware.call(this, req, res, stop) for the i-th middleware: `pass`    *)
(* only reads the response, `stop` calls stop(), `fill` sets a fallback     *)
(* answer when the response has none.  The call is recorded with the        *)
(* answer it read.                                                          *)
Fallback == "fb"

InvokeMiddleware(s, c, i) ==
    [s EXCEPT !.calls[c].ran = Append(@, [i |-> i, saw |-> s.calls[c].answer]),
              !.calls[c].answer = IF middlewares[i] = "fill" /\ @ = Null
                                  THEN Fallback ELSE @]

(* Bot.processMiddleware from its i-th iteration to its next await, or to  *)
(* its end (bot.ts 253-263).                                                *)
ProcessMiddleware(s, c, i) ==
    IF i > Len(middlewares)
    THEN Enq(s, "afterMw", c, 0)
    ELSE Enq(InvokeMiddleware(s, c, i), "mwNext", c, i)

(* The callback of Bot.process continues after `await processAnswer`: it   *)
(* throws when processAnswer rejected, else calls processMiddleware        *)
(* (bot.ts 242-243).                                                        *)
RunAfterAnswer ==
    /\ Job("afterAnswer")
    /\ LET c == Head(mq).id
       IN  /\ Commit(IF calls[c].err THEN Enq(Pop(St), "lockDone", c, 0)
                     ELSE ProcessMiddleware(Pop(St), c, 1))
           /\ actor' = calls[c].user
    /\ UNCHANGED drv

(* processMiddleware that does not look at stop. *)
RunMiddlewareNextAll ==
    /\ Job("mwNext")
    /\ LET c == Head(mq).id
           i == Head(mq).data
       IN  /\ Commit(ProcessMiddleware(Pop(St), c, i + 1))
           /\ actor' = calls[c].user
    /\ UNCHANGED drv

(* processMiddleware continues after `await middleware.call(..)`: it        *)
(* leaves the loop when stop() was called (bot.ts 256-261).                 *)
RunMiddlewareNext ==
    /\ Job("mwNext")
    /\ LET c == Head(mq).id
           i == Head(mq).data
       IN  /\ Commit(IF middlewares[i] = "stop"
                     THEN Enq(Pop(St), "afterMw", c, 0)
                     ELSE ProcessMiddleware(Pop(St), c, i + 1))
           /\ actor' = calls[c].user
    /\ UNCHANGED drv

(* `return res` of the callback of Bot.process (bot.ts 243-244). *)
RunAfterMw ==
    /\ Job("afterMw")
    /\ Commit(Enq(Pop(St), "lockDone", Head(mq).id, 0))
    /\ actor' = calls[Head(mq).id].user
    /\ UNCHANGED drv

(* async-lock's `done` that keeps the key when the callback has thrown. *)
RunLockDoneKeep ==
    /\ Job("lockDone")
    /\ LET c == Head(mq).id
           k == LockKey(calls[c].user)
           s1 == IF calls[c].err THEN Pop(St)
                 ELSE IF locks[k].q = <<>>
                 THEN [Pop(St) EXCEPT !.locks[k].holder = 0]
                 ELSE [Pop(St) EXCEPT !.locks[k].holder = Head(locks[k].q),
                                      !.locks[k].q = Tail(@),
                                      !.calls[Head(locks[k].q)].phase = "classify"]
       IN  /\ Commit(Enq([s1 EXCEPT !.calls[c].phase = "released"], "resolve", c, 0))
           /\ actor' = calls[c].user
    /\ UNCHANGED drv

(* async-lock's `done`: settles the promise of acquire and starts the next *)
(* waiting callback of the key, or frees the key.                          *)
RunLockDone ==
    /\ Job("lockDone")
    /\ LET c == Head(mq).id
           k == LockKey(calls[c].user)
           s1 == IF locks[k].q = <<>>
                 THEN [Pop(St) EXCEPT !.locks[k].holder = 0]
                 ELSE [Pop(St) EXCEPT !.locks[k].holder = Head(locks[k].q),
                                      !.locks[k].q = Tail(@),
                                      !.calls[Head(locks[k].q)].phase = "classify"]
       IN  /\ Commit(Enq([s1 EXCEPT !.calls[c].phase = "released"], "resolve", c, 0))
           /\ actor' = calls[c].user
    /\ UNCHANGED drv

(* The promise of the async function Bot.process settles. *)
RunResolve ==
    /\ Job("resolve")
    /\ Commit(Enq(Pop(St), "deliver", Head(mq).id, 0))
    /\ actor' = calls[Head(mq).id].user
    /\ UNCHANGED drv

(* The caller of Bot.process receives the response, or the error. *)
RunDeliver ==
    /\ Job("deliver")
    /\ LET c == Head(mq).id
       IN  /\ Commit([Pop(St) EXCEPT !.calls[c].phase = "done",
                                     !.calls[c].out = IF calls[c].err THEN Failure
                                                      ELSE calls[c].answer])
           /\ actor' = calls[c].user
    /\ UNCHANGED drv

Init ==
    /\ convos = [u \in Users |-> 0]
    /\ stores = [u \in Users |-> NoStore]
    /\ locks = [u \in Users |-> [holder |-> 0, q |-> <<>>]]
    /\ calls = <<>>
    /\ routines = <<>>
    /\ frames = <<>>
    /\ mq = <<>>
    /\ actor = NoUser
    /\ drv = Idle
    /\ middlewares = <<>>
    /\ setup = NoSetup
    /\ classifier = Trained
    /\ entityManager = NoEntities

(* One user talks to the bot. *)
Next ==
    \/ Len(calls) < MaxCalls /\ \E t \in Texts : Request("A", t)
    \/ \E c \in 1..MaxCalls : ClassifyDone(c)
    \/ \E r \in 1..MaxRoutines : Wake(r)
    \/ RunThenable
    \/ RunSettle
    \/ RunCont
    \/ RunArrow
    \/ RunResume
    \/ RunCatch
    \/ RunFinally
    \/ RunAfterAnswer
    \/ RunAfterMw
    \/ RunLockDone
    \/ RunResolve
    \/ RunDeliver

Spec == Init /\ [][Next]_vars

(* One user talks to a bot with middlewares. *)
MaxMiddlewares == 2    \* middlewares registered with the bot
MaxMwCalls == 2        \* Bot.process calls in one run with middlewares

MwKinds == {"pass", "stop", "fill"}
MwTexts == {"greet", "slow", "bye", "boom", "other"}

MwInit ==
    /\ convos = [u \in Users |-> 0]
    /\ stores = [u \in Users |-> NoStore]
    /\ locks = [u \in Users |-> [holder |-> 0, q |-> <<>>]]
    /\ calls = <<>>
    /\ routines = <<>>
    /\ frames = <<>>
    /\ mq = <<>>
    /\ actor = NoUser
    /\ drv = Idle
    /\ middlewares \in UNION {[1..n -> MwKinds] : n \in 1..MaxMiddlewares}
    /\ setup = NoSetup
    /\ classifier = Trained
    /\ entityManager = NoEntities

MwNext ==
    \/ Len(calls) < MaxMwCalls /\ \E t \in MwTexts : Request("A", t)
    \/ \E c \in 1..MaxMwCalls : ClassifyDone(c)
    \/ \E r \in 1..MaxRoutines : Wake(r)
    \/ RunThenable
    \/ RunSettle
    \/ RunCont
    \/ RunArrow
    \/ RunResume
    \/ RunCatch
    \/ RunFinally
    \/ RunAfterAnswer
    \/ RunMiddlewareNext
    \/ RunAfterMw
    \/ RunLockDone
    \/ RunResolve
    \/ RunDeliver

MwSpec == MwInit /\ [][MwNext]_vars

(* One user talks to the bot while Bot.classify is also called directly. *)
MaxDryCalls == 2       \* Bot.process calls in one run with dry runs
MaxDryRuns == 2        \* direct Bot.classify calls in one run

DryTexts == {"greet", "other"}

(* A dry run that also dispatches the request like Bot.process. *)
DryRunDispatching(u, t) ==
    /\ Len(drv.ins) < MaxDryRuns
    /\ Len(routines) < MaxRoutines
    /\ drv' = [drv EXCEPT !.ins = Append(@, [text |-> t, at |-> Len(calls)]),
                          !.outs = Append(@, [intent |-> Intent(t), answer |-> Null])]
    /\ IF Intent(t) # Null /\ Docs[Intent(t)].hasHandler /\ convos[u] = 0
       THEN /\ routines' = Append(routines, NewRoutine(0, u, Docs[Intent(t)].handler))
            /\ convos' = [convos EXCEPT ![u] = Len(routines) + 1]
       ELSE UNCHANGED <<routines, convos>>
    /\ actor' = u
    /\ UNCHANGED <<stores, locks, calls, frames, mq, middlewares, setup, classifier, entityManager>>

(* bot.classify(req) called directly (bot.ts 192-231): it reads the        *)
(* entity manager and the classifier and returns a response whose answer   *)
(* is null.                                                                 *)
DryRun(u, t) ==
    /\ Len(drv.ins) < MaxDryRuns
    /\ drv' = [drv EXCEPT !.ins = Append(@, [text |-> t, at |-> Len(calls)]),
                          !.outs = Append(@, [intent |-> Intent(t), answer |-> Null])]
    /\ actor' = u
    /\ UNCHANGED <<convos, stores, locks, calls, routines, frames, mq, middlewares, setup, classifier, entityManager>>

DryNext ==
    \/ Len(calls) < MaxDryCalls /\ \E t \in MwTexts : Request("A", t)
    \/ \E t \in DryTexts : DryRun("A", t)
    \/ \E c \in 1..MaxDryCalls : ClassifyDone(c)
    \/ \E r \in 1..MaxRoutines : Wake(r)
    \/ RunThenable
    \/ RunSettle
    \/ RunCont
    \/ RunArrow
    \/ RunResume
    \/ RunCatch
    \/ RunFinally
    \/ RunAfterAnswer
    \/ RunAfterMw
    \/ RunLockDone
    \/ RunResolve
    \/ RunDeliver

DrySpec == Init /\ [][DryNext]_vars

(* The bot is set up: documents are added (bot.ts 147-150). *)
MaxAdds == 3           \* Bot.addDocument calls in one run

(* Bot.addDocument: the classifier takes the examples of the document as   *)
(* training pairs, then the document is stored under its intent.           *)
AddDocument(doc) ==
    /\ Len(setup.log) < MaxAdds
    /\ setup' = [docs |-> [setup.docs EXCEPT ![doc.intent] = doc.v],
                 samples |-> Append(setup.samples, doc),
                 log |-> Append(setup.log, [doc |-> doc, result |-> "ok"])]
    /\ UNCHANGED <<convos, stores, locks, calls, routines, frames, mq, actor, drv,
                   middlewares, classifier, entityManager>>

SetupNext == \E doc \in SetupDocs : AddDocument(doc)

SetupSpec == Init /\ [][SetupNext]_vars

(* The classifier is set up, trained and asked (classifier.ts 96-151).     *)
MaxClassifierCalls == 3   \* addDocument, train and classify calls in one run

(* An example the tokenizer turns into no token adds no training pair      *)
(* (the external classifier ignores it).                                    *)
Examples == {"hi", ""}
ClassifierDocs ==
    [intent : {"greet", "bye"}, examples : UNION {[1..n -> Examples] : n \in 0..2}]

(* The training pairs after the loop of addDocument (classifier.ts 98-102) *)
AddedPairs(docs, doc) ==
    docs \o [i \in 1..Len(SelectSeq(doc.examples, LAMBDA e : e # "")) |-> doc.intent]

Logged(cls, op, arg, result) ==
    [cls EXCEPT !.log = Append(@, [op |-> op, arg |-> arg, result |-> result])]

(* addDocument that accepts a document without examples. *)
ClassifierAddDocumentAny(doc) ==
    /\ Len(classifier.log) < MaxClassifierCalls
    /\ classifier' = Logged([classifier EXCEPT !.docs = AddedPairs(@, doc)],
                            "addDocument", doc, "ok")
    /\ UNCHANGED <<convos, stores, locks, calls, routines, frames, mq, actor, drv,
                   middlewares, setup, entityManager>>

(* Classifier.addDocument (classifier.ts 96-106) *)
ClassifierAddDocument(doc) ==
    /\ Len(classifier.log) < MaxClassifierCalls
    /\ LET originalCount == Len(classifier.docs)
           added == [classifier EXCEPT !.docs = AddedPairs(@, doc)]
       IN  classifier' = Logged(added, "addDocument", doc,
                                IF originalCount = Len(added.docs)
                                THEN Failure ELSE "ok")
    /\ UNCHANGED <<convos, stores, locks, calls, routines, frames, mq, actor, drv,
                   middlewares, setup, entityManager>>

(* train that does not look at the training pairs. *)
TrainAlways ==
    /\ Len(classifier.log) < MaxClassifierCalls
    /\ classifier' = Logged([classifier EXCEPT !.ready = TRUE], "train", 0, "ok")
    /\ UNCHANGED <<convos, stores, locks, calls, routines, frames, mq, actor, drv,
                   middlewares, setup, entityManager>>

(* Classifier.train, which is all of Bot.train (classifier.ts 112-118,     *)
(* bot.ts 164-166).                                                         *)
Train ==
    /\ Len(classifier.log) < MaxClassifierCalls
    /\ classifier' = IF classifier.docs = <<>>
                     THEN Logged(classifier, "train", 0, Failure)
                     ELSE Logged([classifier EXCEPT !.ready = TRUE], "train", 0, "ok")
    /\ UNCHANGED <<convos, stores, locks, calls, routines, frames, mq, actor, drv,
                   middlewares, setup, entityManager>>

(* A task of classifierQueue: `caller` is the Bot.process call that pushed *)
(* it (0 for a direct call of the classifier), `raw` the scores of the     *)
(* external classifier, `result` what Classifier.classify returns.  A task *)
(* is queued, running (the worker was called), scored (the worker's        *)
(* getClassifications ran), done (the queue took the worker's result) and  *)
(* returned (classify continued after its await).                          *)
NewTask(cls, input, caller) ==
    [input |-> input, caller |-> caller, raw |-> <<>>, result |-> <<>>,
     st |-> IF \E i \in DOMAIN cls.queue : cls.queue[i].st \in {"running", "scored"}
            THEN "queued" ELSE "running"]

(* push of a queue that calls its worker at once, whatever is running. *)
QueuePushEager(cls, input, caller) ==
    [cls EXCEPT !.queue = Append(@, [NewTask(cls, input, caller) EXCEPT !.st = "running"])]

(* classifierQueue.push(input): the queue has concurrency 1                *)
(* (classifier.ts 66-68, 132): the worker is called at once when no task   *)
(* is running, else the task waits.                                        *)
QueuePush(cls, input, caller) ==
    [cls EXCEPT !.queue = Append(@, NewTask(cls, input, caller))]

(* Classifier.classify up to its await (classifier.ts 126-132): it throws  *)
(* when the classifier is not trained, else pushes the input to the queue. *)
ClassifierClassify(input) ==
    /\ Len(classifier.log) < MaxClassifierCalls
    /\ classifier' = IF ~classifier.ready
                     THEN Logged(classifier, "classify", input, Failure)
                     ELSE Logged(QueuePush(classifier, input, 0),
                                 "classify", input, "pushed")
    /\ UNCHANGED <<convos, stores, locks, calls, routines, frames, mq, actor, drv,
                   middlewares, setup, entityManager>>

(* The labels of the external classifier, in the order it returns them,   *)
(* and the values it gives them, in thousandths.                           *)
ClassifierLabels == <<"en/greet", "en/bye", "uk/greet">>
RawValues == {0, 4, 5, 304, 305, 700}
RawLists == [1..3 -> RawValues]

(* The external classifier on the inputs of the specifications that do not *)
(* draw its values.                                                         *)
GetClassifications(input) ==
    CASE input = "hi"  -> <<700, 304, 0>>
      [] input = "yo"  -> <<4, 700, 305>>
      [] input = "bye" -> <<0, 900, 0>>
      [] input = "plain" -> <<0, 4, 900>>
      [] OTHER         -> <<0, 0, 0>>

(* lodash round(value, 2) of a value in thousandths, in hundredths. *)
Round2(v) == (v + 5) \div 10

RECURSIVE SumScores(_)
SumScores(l) == IF l = <<>> THEN 0 ELSE Head(l).score + SumScores(Tail(l))

(* Classifier.classify after its await, without the filter of the mean. *)
ClassifierResultAll(raw) ==
    SelectSeq([i \in 1..Len(raw) |->
                  [label |-> ClassifierLabels[i], score |-> Round2(raw[i])]],
              LAMBDA cls : cls.score > 0)

(* Classifier.classify after its await (classifier.ts 133-150): scores are *)
(* rounded, those not positive are dropped, and of two or more the ones    *)
(* not above the mean are dropped (score > sum / n, as score * n > sum).   *)
ClassifierResult(raw) ==
    LET classifications ==
            SelectSeq([i \in 1..Len(raw) |->
                          [label |-> ClassifierLabels[i], score |-> Round2(raw[i])]],
                      LAMBDA cls : cls.score > 0)
        n == Len(classifications)
        sum == SumScores(classifications)
    IN  IF n <= 1 THEN classifications
        ELSE SelectSeq(classifications, LAMBDA cls : cls.score * n > sum)

(* The worker of the queue runs: Promise.resolve().then(() =>              *)
(* this.classifier.getClassifications(input)) (classifier.ts 66-68).       *)
QueueWork(i, raw) ==
    /\ i \in DOMAIN classifier.queue
    /\ classifier.queue[i].st = "running"
    /\ classifier' = [classifier EXCEPT !.queue[i].st = "scored", !.queue[i].raw = raw]
    /\ UNCHANGED <<convos, stores, locks, calls, routines, frames, mq, actor, drv,
                   middlewares, setup, entityManager>>

(* A release that does not call the worker for a waiting task. *)
QueueReleaseOnly(i) ==
    /\ i \in DOMAIN classifier.queue
    /\ classifier.queue[i].st = "scored"
    /\ classifier' = [classifier EXCEPT !.queue[i].st = "done"]
    /\ UNCHANGED <<convos, stores, locks, calls, routines, frames, mq, actor, drv,
                   middlewares, setup, entityManager>>

(* The queue takes the result of the worker: the promise of push resolves  *)
(* and the worker is called for the task that waited longest.              *)
QueueRelease(i) ==
    /\ i \in DOMAIN classifier.queue
    /\ classifier.queue[i].st = "scored"
    /\ LET waiting == {j \in DOMAIN classifier.queue : classifier.queue[j].st = "queued"}
           next == CHOOSE j \in waiting : \A k \in waiting : j <= k
       IN  classifier' =
             [classifier EXCEPT !.queue =
                 [j \in DOMAIN classifier.queue |->
                     IF j = i THEN [classifier.queue[j] EXCEPT !.st = "done"]
                     ELSE IF waiting # {} /\ j = next
                          THEN [classifier.queue[j] EXCEPT !.st = "running"]
                          ELSE classifier.queue[j]]]
    /\ UNCHANGED <<convos, stores, locks, calls, routines, frames, mq, actor, drv,
                   middlewares, setup, entityManager>>

(* Classifier.classify continues after `await this.classifierQueue.push`   *)
(* and returns (classifier.ts 132-150).                                     *)
ClassifierReturn(i) ==
    /\ i \in DOMAIN classifier.queue
    /\ classifier.queue[i].st = "done"
    /\ classifier' = [classifier EXCEPT
                         !.queue[i].st = "returned",
                         !.queue[i].result = ClassifierResult(classifier.queue[i].raw)]
    /\ UNCHANGED <<convos, stores, locks, calls, routines, frames, mq, actor, drv,
                   middlewares, setup, entityManager>>

(* groupBy(list, label) with sumBy(group, 'score') for every group, in the *)
(* order in which the labels first occur (classifier.ts 173-179).           *)
RECURSIVE Distinct(_)
Distinct(l) ==
    IF l = <<>> THEN <<>>
    ELSE <<Head(l)>> \o Distinct(SelectSeq(Tail(l), LAMBDA x : x # Head(l)))

GroupSum(l) ==
    LET labels == Distinct([i \in DOMAIN l |-> l[i].label])
    IN  [k \in DOMAIN labels |->
            [label |-> labels[k],
             score |-> SumScores(SelectSeq(l, LAMBDA cls : cls.label = labels[k]))]]

(* The group keeps the score of its last member instead of the sum. *)
GroupLast(l) ==
    LET labels == Distinct([i \in DOMAIN l |-> l[i].label])
    IN  [k \in DOMAIN labels |->
            LET group == SelectSeq(l, LAMBDA cls : cls.label = labels[k])
            IN  group[Len(group)]]

RECURSIVE MergeLast(_, _)
MergeLast(acc, lists) ==
    IF lists = <<>> THEN acc
    ELSE MergeLast(GroupLast(acc \o Head(lists)), Tail(lists))

(* .filter(nonempty).reduce((acc, curr) => ..., []) (classifier.ts 169-180) *)
RECURSIVE MergeSentences(_, _)
MergeSentences(acc, lists) ==
    IF lists = <<>> THEN acc
    ELSE MergeSentences(GroupSum(acc \o Head(lists)), Tail(lists))

(* round(cls.score * ratio, 2) with ratio = 1 / total, in hundredths. *)
Normalized(score, total) == (200 * score + total) \div (2 * total)

(* .sort((a, b) => b.score - a.score): a stable sort by falling score. *)
RECURSIVE Insert(_, _)
Insert(sorted, x) ==
    IF sorted = <<>> THEN <<x>>
    ELSE IF Head(sorted).score >= x.score
         THEN <<Head(sorted)>> \o Insert(Tail(sorted), x)
         ELSE <<x>> \o sorted

RECURSIVE SortByScore(_, _)
SortByScore(sorted, rest) ==
    IF rest = <<>> THEN sorted ELSE SortByScore(Insert(sorted, Head(rest)), Tail(rest))

(* Step 3 of classifyText (classifier.ts 183-191) *)
NormalizeAndSort(classifications) ==
    LET total == SumScores(classifications)
    IN  SortByScore(<<>>, [i \in DOMAIN classifications |->
                             [label |-> classifications[i].label,
                              score |-> Normalized(classifications[i].score, total)]])

(* Classifier.classifyText of two or more sentences up to its await        *)
(* (classifier.ts 158-168): every sentence is handed to classify, which    *)
(* throws when the classifier is not trained and pushes otherwise.         *)
RECURSIVE PushAll(_, _)
PushAll(cls, sentences) ==
    IF sentences = <<>> THEN cls
    ELSE PushAll(QueuePush(cls, Head(sentences), 0), Tail(sentences))

ClassifierClassifyText(sentences) ==
    /\ Len(classifier.log) < MaxClassifierCalls
    /\ classifier' =
          IF ~classifier.ready
          THEN Logged(classifier, "classifyText", sentences, Failure)
          ELSE LET first == Len(classifier.queue) + 1
                   pushed == PushAll(classifier, sentences)
               IN  Logged([pushed EXCEPT !.texts =
                              Append(@, [tasks |-> first..Len(pushed.queue),
                                         st |-> "pending", merged |-> <<>>,
                                         result |-> <<>>])],
                          "classifyText", sentences, "pushed")
    /\ UNCHANGED <<convos, stores, locks, calls, routines, frames, mq, actor, drv,
                   middlewares, setup, entityManager>>

(* The results of the sentences of a classifyText call, in their order. *)
RECURSIVE SentenceResults(_, _)
SentenceResults(cls, tasks) ==
    IF tasks = {} THEN <<>>
    ELSE LET i == CHOOSE j \in tasks : \A k \in tasks : j <= k
         IN  <<cls.queue[i].result>> \o SentenceResults(cls, tasks \ {i})

(* classifyText continues after `await Promise.all(..)` and returns        *)
(* (classifier.ts 168-191).                                                 *)
ClassifyTextReturn(k) ==
    /\ k \in DOMAIN classifier.texts
    /\ classifier.texts[k].st = "pending"
    /\ \A i \in classifier.texts[k].tasks : classifier.queue[i].st = "returned"
    /\ LET lists == SelectSeq(SentenceResults(classifier, classifier.texts[k].tasks),
                              LAMBDA l : Len(l) > 0)
           classifications == MergeSentences(<<>>, lists)
       IN  classifier' = [classifier EXCEPT
                             !.texts[k].st = "returned",
                             !.texts[k].merged = classifications,
                             !.texts[k].result = NormalizeAndSort(classifications)]
    /\ UNCHANGED <<convos, stores, locks, calls, routines, frames, mq, actor, drv,
                   middlewares, setup, entityManager>>

(* `await this.classify(req)` rejects in Bot.process: classifyText throws  *)
(* the error of Classifier.classify, the callback of the lock throws and   *)
(* the lock is released (bot.ts 196-199, 240-241).                          *)
ClassifyFailed(c) ==
    /\ c \in DOMAIN calls
    /\ calls[c].phase = "classify"
    /\ ~classifier.ready
    /\ Commit(Enq([St EXCEPT !.calls[c].phase = "answer", !.calls[c].err = TRUE],
                  "lockDone", c, 0))
    /\ actor' = calls[c].user
    /\ UNCHANGED drv

(* A new bot with one middleware: nothing is added, nothing is trained. *)
UntrainedInit ==
    /\ convos = [u \in Users |-> 0]
    /\ stores = [u \in Users |-> NoStore]
    /\ locks = [u \in Users |-> [holder |-> 0, q |-> <<>>]]
    /\ calls = <<>>
    /\ routines = <<>>
    /\ frames = <<>>
    /\ mq = <<>>
    /\ actor = NoUser
    /\ drv = Idle
    /\ middlewares = <<"fill">>
    /\ setup = NoSetup
    /\ classifier = Untrained
    /\ entityManager = NoEntities

TrainNext ==
    \/ \E doc \in ClassifierDocs : ClassifierAddDocument(doc)
    \/ Train
    \/ ClassifierClassify("hi")
    \/ \E i \in 1..MaxClassifierCalls :
          QueueWork(i, GetClassifications(classifier.queue[i].input))
    \/ \E i \in 1..MaxClassifierCalls : QueueRelease(i)
    \/ \E i \in 1..MaxClassifierCalls : ClassifierReturn(i)

TrainSpec == UntrainedInit /\ [][TrainNext]_vars

(* One sentence is classified; the external classifier gives any values.   *)
ScoreNext ==
    \/ classifier.log = <<>> /\ ClassifierClassify("hi")
    \/ \E raw \in RawLists : QueueWork(1, raw)
    \/ QueueRelease(1)
    \/ ClassifierReturn(1)

ScoreSpec == Init /\ [][ScoreNext]_vars

(* A text of several sentences is classified; the external classifier      *)
(* gives any of the values of TextRaws to a sentence; a sentence is named   *)
(* by its place in the text.                                                *)
MaxSentences == 2      \* sentences of the text
TextRaws == [1..3 -> {0, 100, 700}]

TextNext ==
    \/ /\ classifier.log = <<>>
       /\ \E n \in 2..MaxSentences : ClassifierClassifyText([i \in 1..n |-> i])
    \/ \E i \in 1..MaxSentences, raw \in TextRaws : QueueWork(i, raw)
    \/ \E i \in 1..MaxSentences : QueueRelease(i)
    \/ \E i \in 1..MaxSentences : ClassifierReturn(i)
    \/ ClassifyTextReturn(1)

TextSpec == Init /\ [][TextNext]_vars

(* One user talks to a bot whose documents are added and which is trained  *)
(* while the user talks.                                                    *)
MaxUntrainedCalls == 1    \* Bot.process calls in one run of UntrainedSpec
UntrainedTexts == {"greet", "boom", "bye", "other"}

UntrainedNext ==
    \/ classifier.docs = <<>>
          /\ ClassifierAddDocument([intent |-> "greet", examples |-> <<"hi">>])
    \/ Train
    \/ ClassifierClassify("hi")
    \/ \E i \in 1..MaxClassifierCalls :
          QueueWork(i, GetClassifications(classifier.queue[i].input))
    \/ \E i \in 1..MaxClassifierCalls : QueueRelease(i)
    \/ \E i \in 1..MaxClassifierCalls : ClassifierReturn(i)
    \/ Len(calls) < MaxUntrainedCalls /\ \E t \in UntrainedTexts : Request("A", t)
    \/ \E c \in 1..MaxUntrainedCalls : ClassifyFailed(c)
    \/ \E c \in 1..MaxUntrainedCalls : ClassifyDone(c)
    \/ RunThenable
    \/ RunSettle
    \/ RunCont
    \/ RunCatch
    \/ RunFinally
    \/ RunAfterAnswer
    \/ RunMiddlewareNext
    \/ RunAfterMw
    \/ RunLockDone
    \/ RunResolve
    \/ RunDeliver

UntrainedSpec == UntrainedInit /\ [][UntrainedNext]_vars

(* One user talks to a bot that is trained while the user talks; handlers  *)
(* of the documents throw.                                                  *)
MaxRejectCalls == 3    \* Bot.process calls in one run of RejectSpec
RejectTexts == {"askboom"}

(* The steps the event loop takes on its own: promise jobs and the         *)
(* continuations of Bot.process.                                            *)
RejectProgress ==
    \/ \E c \in 1..MaxRejectCalls : ClassifyFailed(c)
    \/ \E c \in 1..MaxRejectCalls : ClassifyDone(c)
    \/ RunThenable
    \/ RunSettle
    \/ RunCont
    \/ RunArrow
    \/ RunResume
    \/ RunCatch
    \/ RunFinally
    \/ RunAfterAnswer
    \/ RunMiddlewareNext
    \/ RunAfterMw
    \/ RunLockDone
    \/ RunResolve
    \/ RunDeliver

RejectNext ==
    \/ classifier.docs = <<>>
          /\ ClassifierAddDocument([intent |-> "greet", examples |-> <<"hi">>])
    \/ Train
    \/ Len(calls) < MaxRejectCalls /\ \E t \in RejectTexts : Request("A", t)
    \/ RejectProgress

RejectSpec == UntrainedInit /\ [][RejectNext]_vars

(* The event loop runs the jobs that are ready. *)
RejectLiveSpec == RejectSpec /\ WF_vars(RejectProgress)

(* Users talk to the bot while the classifier is called directly: the      *)
(* classifications go through classifierQueue.                              *)
MaxQueueCalls == 2     \* Bot.process calls in one run of QueueSpec
MaxTasks == 2 * MaxQueueCalls + 2   \* two tasks a call and two of the direct call
QueueTexts == {"plain"}

(* Bot.classify after `await this.entityManager.process(req.text)`: both   *)
(* classifyText calls push their input before either is awaited            *)
(* (bot.ts 196-199); without entities the template is the text.            *)
BotClassifyPush(c) ==
    /\ c \in DOMAIN calls
    /\ calls[c].phase = "classify"
    /\ classifier.ready
    /\ \A i \in DOMAIN classifier.queue : classifier.queue[i].caller # c
    /\ classifier' = QueuePush(QueuePush(classifier, calls[c].text, c), calls[c].text, c)
    /\ actor' = calls[c].user
    /\ UNCHANGED <<convos, stores, locks, calls, routines, frames, mq, drv,
                   middlewares, setup, entityManager>>

(* `await Promise.all([..])` of Bot.classify returns when both lists are   *)
(* there; Bot.process goes on (bot.ts 196-199, 241-242).                    *)
ClassifyReturn(c) ==
    /\ \E i \in DOMAIN classifier.queue : classifier.queue[i].caller = c
    /\ \A i \in DOMAIN classifier.queue :
          classifier.queue[i].caller = c => classifier.queue[i].st = "returned"
    /\ ClassifyDone(c)

(* The steps of the queue on one job: the worker scores it, the queue     *)
(* releases it and starts the next, classify returns to its caller.        *)
QueueSteps ==
    \/ \E i \in 1..MaxTasks :
          QueueWork(i, GetClassifications(classifier.queue[i].input))
    \/ \E i \in 1..MaxTasks : QueueRelease(i)
    \/ \E i \in 1..MaxTasks : ClassifierReturn(i)

QueueProgress ==
    \/ \E c \in 1..MaxQueueCalls : BotClassifyPush(c)
    \/ QueueSteps
    \/ ClassifyTextReturn(1)
    \/ \E c \in 1..MaxQueueCalls : ClassifyReturn(c)
    \/ RunAfterAnswer
    \/ RunAfterMw
    \/ RunLockDone
    \/ RunResolve
    \/ RunDeliver

QueueNext ==
    \/ /\ Len(calls) < MaxQueueCalls
       /\ \E u \in Users, t \in QueueTexts : (Len(calls) = 0 => u = "A") /\ Request(u, t)
    \/ classifier.log = <<>> /\ ClassifierClassifyText(<<"hi", "yo">>)
    \/ QueueProgress

QueueSpec == Init /\ [][QueueNext]_vars

(* A step of the queue that is enabled is taken in the end: the event loop *)
(* runs the promise jobs that are ready.  Nothing is assumed of the other   *)
(* steps of the bot.                                                        *)
QueueLiveSpec == QueueSpec /\ WF_vars(QueueSteps)

(* The entity registry is set up (entity.ts 81-113).  An extractor is an   *)
(* object with a label; `id` tells two extractors with one label apart.    *)
(* `extractors` is the Map in insertion order.                             *)
MaxEntityCalls == 3    \* addEntity and removeEntity calls in one run
Labels == {"a", "b", "c"}
Extractors == [label : Labels, id : {1, 2}]

(* this.extractors.get(label) is an extractor (truthy), not undefined.    *)
HasEntity(em, label) == \E i \in DOMAIN em.extractors : em.extractors[i].label = label

(* this.extractors.get(label) when the label is registered. *)
GetEntity(em, label) ==
    em.extractors[CHOOSE i \in DOMAIN em.extractors : em.extractors[i].label = label]

(* this.extractors.set(label, extractor): a present key keeps its place.  *)
MapSet(m, e) ==
    IF \E i \in DOMAIN m : m[i].label = e.label
    THEN [i \in DOMAIN m |-> IF m[i].label = e.label THEN e ELSE m[i]]
    ELSE Append(m, e)

(* this.extractors.delete(label) *)
MapDelete(m, label) == SelectSeq(m, LAMBDA e : e.label # label)

(* addEntity without the check of the label. *)
AddEntityOverwrite(extractor) ==
    /\ Len(entityManager.log) < MaxEntityCalls
    /\ entityManager' =
           [extractors |-> MapSet(entityManager.extractors, extractor),
            log |-> Append(entityManager.log,
                           [op |-> "add", arg |-> extractor, result |-> "ok"])]
    /\ UNCHANGED <<convos, stores, locks, calls, routines, frames, mq, actor, drv,
                   middlewares, setup, classifier>>

(* EntityManager.addEntity (entity.ts 89-95) *)
AddEntity(extractor) ==
    /\ Len(entityManager.log) < MaxEntityCalls
    /\ entityManager' =
           IF HasEntity(entityManager, extractor.label)
           THEN [entityManager EXCEPT
                    !.log = Append(@, [op |-> "add", arg |-> extractor,
                                       result |-> Failure])]
           ELSE [extractors |-> MapSet(entityManager.extractors, extractor),
                 log |-> Append(entityManager.log,
                                [op |-> "add", arg |-> extractor, result |-> "ok"])]
    /\ UNCHANGED <<convos, stores, locks, calls, routines, frames, mq, actor, drv,
                   middlewares, setup, classifier>>

(* EntityManager.removeEntity (entity.ts 111-113) *)
RemoveEntity(label) ==
    /\ Len(entityManager.log) < MaxEntityCalls
    /\ entityManager' =
           [extractors |-> MapDelete(entityManager.extractors, label),
            log |-> Append(entityManager.log,
                           [op |-> "remove", arg |-> label, result |-> "ok"])]
    /\ UNCHANGED <<convos, stores, locks, calls, routines, frames, mq, actor, drv,
                   middlewares, setup, classifier>>

EntityNext ==
    \/ \E extractor \in Extractors : AddEntity(extractor)
    \/ \E label \in Labels : RemoveEntity(label)

EntitySpec == Init /\ [][EntityNext]_vars

(* EntityManager.search (entity.ts 120-140).  A match is what an extractor *)
(* returns: its label, the offset `index` of the source in the input and   *)
(* `len`, the length of `source`.  RegexpEntity returns offsets of         *)
(* String.matchAll; EnumEntity returns input.indexOf(source), that is -1   *)
(* when the source is not found.                                            *)
MaxFound == 3          \* matches all extractors return to one search
Indexes == {-1, 0, 1}
Lengths == {0, 1, 2}
SearchExtractors == {e \in Extractors : e.label \in {"a", "b"} /\ e.id = 1}
Spans == [index : Indexes, len : Lengths]

(* A sort that puts a match before the matches of its index. *)
RECURSIVE InsertBeforeEqual(_, _)
InsertBeforeEqual(sorted, x) ==
    IF sorted = <<>> THEN <<x>>
    ELSE IF Head(sorted).index < x.index
         THEN <<Head(sorted)>> \o InsertBeforeEqual(Tail(sorted), x)
         ELSE <<x>> \o sorted

(* .sort((a, b) => a.index - b.index): a stable sort by rising index.      *)
RECURSIVE InsertByIndex(_, _)
InsertByIndex(sorted, x) ==
    IF sorted = <<>> THEN <<x>>
    ELSE IF Head(sorted).index <= x.index
         THEN <<Head(sorted)>> \o InsertByIndex(Tail(sorted), x)
         ELSE <<x>> \o sorted

RECURSIVE SortByIndex(_, _)
SortByIndex(sorted, rest) ==
    IF rest = <<>> THEN sorted
    ELSE SortByIndex(InsertByIndex(sorted, Head(rest)), Tail(rest))

(* Step 2 of search: entities.filter with the running `lastEnding`.        *)
RECURSIVE FilterOverlapping(_, _, _)
FilterOverlapping(kept, lastEnding, entities) ==
    IF entities = <<>> THEN kept
    ELSE LET entity == Head(entities)
         IN  IF entity.index < lastEnding
             THEN FilterOverlapping(kept, lastEnding, Tail(entities))
             ELSE FilterOverlapping(Append(kept, entity),
                                    entity.index + entity.len, Tail(entities))

(* search that returns the sorted matches without Step 2. *)
SearchSorted(flat) == SortByIndex(<<>>, flat)

(* The value search resolves with, given the flattened results `flat` of   *)
(* the extractors.                                                          *)
Search(flat) == FilterOverlapping(<<>>, 0, SortByIndex(<<>>, flat))

(* The flattened results of the registered extractors, in the order of the *)
(* Map: the first extractor returned the matches of `spans` before `cut`,  *)
(* the second the rest; every match carries the label of its extractor.    *)
Flat(em, spans, cut) ==
    [i \in DOMAIN spans |->
        [label |-> em.extractors[IF i <= cut THEN 1 ELSE 2].label,
         index |-> spans[i].index, len |-> spans[i].len]]

(* A call of EntityManager.search up to its return.  The extractors are    *)
(* asynchronous but search awaits them all before it goes on, and nothing  *)
(* of the registry is read after the await.                                 *)
EntitySearch(spans, cut) ==
    /\ cut \in 0..Len(spans)
    /\ Len(entityManager.extractors) = 0 => Len(spans) = 0
    /\ Len(entityManager.extractors) = 1 => cut = Len(spans)
    /\ LET flat == Flat(entityManager, spans, cut)
       IN  entityManager' =
              [entityManager EXCEPT
                  !.log = Append(@, [op |-> "search", arg |-> flat,
                                     result |-> Search(flat)])]
    /\ UNCHANGED <<convos, stores, locks, calls, routines, frames, mq, actor, drv,
                   middlewares, setup, classifier>>

SearchNext ==
    \/ \E extractor \in SearchExtractors : AddEntity(extractor)
    \/ /\ Len(entityManager.log) < MaxEntityCalls
       /\ \A i \in DOMAIN entityManager.log : entityManager.log[i].op # "search"
       /\ \E n \in 0..MaxFound : \E spans \in [1..n -> Spans] :
             \E cut \in 0..n : EntitySearch(spans, cut)

SearchSpec == Init /\ [][SearchNext]_vars

(* Entity.template and EntityManager.process (entity.ts 51-56, 147-151).   *)
(* A string is the sequence of its characters; `%a%` is three characters.  *)
MaxInput == 3          \* characters of the input of process
MaxProcessFound == 2   \* matches all extractors return to one process call
Chars == {"x", "y"}

(* `%${label}%` *)
Token(label) == <<"%", label, "%">>

Clamp(n, len) == IF n < 0 THEN 0 ELSE IF n > len THEN len ELSE n

(* String.prototype.substring(start, end): both arguments are brought     *)
(* into 0..length and swapped when start is the larger.                   *)
Substring(str, start, end) ==
    LET a == Clamp(start, Len(str))
        b == Clamp(end, Len(str))
    IN  IF a <= b THEN SubSeq(str, a + 1, b) ELSE SubSeq(str, b + 1, a)

(* The reducer without the shift by the growth of `acc`. *)
ReplaceAtIndex(acc, input, entity) ==
    Substring(acc, 0, entity.index) \o Token(entity.label)
        \o Substring(acc, entity.index + entity.len, Len(acc))

(* The callback of reduce in Entity.template (entity.ts 52-55) *)
Replace(acc, input, entity) ==
    LET pos == entity.index - (Len(input) - Len(acc))
    IN  Substring(acc, 0, pos) \o Token(entity.label)
            \o Substring(acc, pos + entity.len, Len(acc))

RECURSIVE Reduce(_, _, _)
Reduce(acc, input, entities) ==
    IF entities = <<>> THEN acc
    ELSE Reduce(Replace(acc, input, Head(entities)), input, Tail(entities))

(* Entity.template (entity.ts 51-56) *)
Template(input, entities) == Reduce(input, input, entities)

(* The spans an extractor can return for `input`: a part of the input, or  *)
(* index -1 with a source that indexOf does not find (enum.ts 47).          *)
SpansOf(input) ==
    {sp \in [index : -1..Len(input), len : 0..Len(input)] :
        IF sp.index = -1 THEN sp.len = 1 ELSE sp.index + sp.len <= Len(input)}

(* EntityManager.process (entity.ts 147-151): search, then template.       *)
EntityProcess(input, spans, cut) ==
    /\ cut \in 0..Len(spans)
    /\ Len(entityManager.extractors) = 0 => Len(spans) = 0
    /\ Len(entityManager.extractors) = 1 => cut = Len(spans)
    /\ LET flat == Flat(entityManager, spans, cut)
           entities == Search(flat)
       IN  entityManager' =
              [entityManager EXCEPT
                  !.log = Append(@, [op |-> "process",
                                     arg |-> [input |-> input, found |-> flat],
                                     result |-> [template |-> Template(input, entities),
                                                 entities |-> entities]])]
    /\ UNCHANGED <<convos, stores, locks, calls, routines, frames, mq, actor, drv,
                   middlewares, setup, classifier>>

(* The registry after addEntity of an extractor `a` and of an extractor `b`. *)
Registered ==
    [extractors |-> <<[label |-> "a", id |-> 1], [label |-> "b", id |-> 1]>>,
     log |-> <<[op |-> "add", arg |-> [label |-> "a", id |-> 1], result |-> "ok"],
               [op |-> "add", arg |-> [label |-> "b", id |-> 1], result |-> "ok"]>>]

RegisteredInit ==
    /\ convos = [u \in Users |-> 0]
    /\ stores = [u \in Users |-> NoStore]
    /\ locks = [u \in Users |-> [holder |-> 0, q |-> <<>>]]
    /\ calls = <<>>
    /\ routines = <<>>
    /\ frames = <<>>
    /\ mq = <<>>
    /\ actor = NoUser
    /\ drv = Idle
    /\ middlewares = <<>>
    /\ setup = NoSetup
    /\ classifier = Trained
    /\ entityManager = Registered

ProcessNext ==
    /\ \A i \in DOMAIN entityManager.log : entityManager.log[i].op # "process"
    /\ \E m \in 0..MaxInput : \E input \in [1..m -> Chars] :
          \E n \in 0..MaxProcessFound : \E spans \in [1..n -> SpansOf(input)] :
             \E cut \in 0..n : EntityProcess(input, spans, cut)

ProcessSpec == RegisteredInit /\ [][ProcessNext]_vars

(* EnumEntity.search (enum.ts 37-51).  The input is a sequence of          *)
(* characters; the blank stands for the characters WordTokenizer splits    *)
(* at (tokenizer.ts 8-10, 25-28).  Which tokens reach the threshold        *)
(* depends on the options, the stemmer and minThreshold: `passing` is the  *)
(* set of token texts whose best option passes the filter (enum.ts 40-45). *)
MaxEnumInput == 4      \* characters of the input of EnumEntity.search
EnumChars == {"a", "b", " "}

(* The offsets at which a token starts and the token that starts there. *)
TokenStarts(input) ==
    {i \in 1..Len(input) : input[i] # " " /\ (i = 1 \/ input[i - 1] = " ")}

TokenEnd(input, i) ==
    CHOOSE j \in i..Len(input) :
        /\ \A k \in i..j : input[k] # " "
        /\ (j = Len(input) \/ input[j + 1] = " ")

RECURSIVE TokensFrom(_, _)
TokensFrom(input, starts) ==
    IF starts = {} THEN <<>>
    ELSE LET i == CHOOSE k \in starts : \A l \in starts : k <= l
         IN  <<[text |-> SubSeq(input, i, TokenEnd(input, i)), at |-> i - 1]>>
                 \o TokensFrom(input, starts \ {i})

(* this.tokenizer.tokenize(input); `at` is the offset of the occurrence,   *)
(* which the code does not keep.                                            *)
Tokenize(input) == TokensFrom(input, TokenStarts(input))

(* String.prototype.indexOf *)
IndexOf(str, pat) ==
    LET hits == {i \in 0..(Len(str) - Len(pat)) : SubSeq(str, i + 1, i + Len(pat)) = pat}
    IN  IF hits = {} THEN -1 ELSE CHOOSE i \in hits : \A j \in hits : i <= j

(* input.replace(source, ' '.repeat(source.length)): the first occurrence. *)
Blank(str, pat) ==
    LET i == IndexOf(str, pat)
    IN  IF i = -1 THEN str
        ELSE [k \in DOMAIN str |-> IF i < k /\ k <= i + Len(pat) THEN " " ELSE str[k]]

(* The .map of EnumEntity.search over the tokens that passed the filter;   *)
(* `work` is the reassigned `input`.                                        *)
RECURSIVE Locate(_, _)
Locate(work, tokens) ==
    IF tokens = <<>> THEN <<>>
    ELSE LET token == Head(tokens)
         IN  <<[source |-> token.text, index |-> IndexOf(work, token.text),
                at |-> token.at]>>
                 \o Locate(Blank(work, token.text), Tail(tokens))

EnumSearchResult(input, passing) ==
    Locate(input, SelectSeq(Tokenize(input), LAMBDA token : token.text \in passing))

(* A call of EnumEntity.search, written to the log of calls. *)
EnumSearch(input, passing) ==
    /\ entityManager' =
          [entityManager EXCEPT
              !.log = Append(@, [op |-> "enum", arg |-> input,
                                 result |-> EnumSearchResult(input, passing)])]
    /\ UNCHANGED <<convos, stores, locks, calls, routines, frames, mq, actor, drv,
                   middlewares, setup, classifier>>

TokenTexts(input) == {Tokenize(input)[i].text : i \in DOMAIN Tokenize(input)}

EnumNext ==
    /\ entityManager.log = <<>>
    /\ \E m \in 0..MaxEnumInput : \E input \in [1..m -> EnumChars] :
          \E passing \in SUBSET TokenTexts(input) : EnumSearch(input, passing)

EnumSpec == Init /\ [][EnumNext]_vars

(* RegexpEntity (regexp.ts 18-39).  A pattern extractor is the record of   *)
(* its label and of `pattern.global`; `new` is written to the log of calls *)
(* and the objects that exist are the ones whose construction returned.    *)
PatternExtractors == [label : Labels, id : {1}, global : BOOLEAN]

(* A constructor that does not look at the flag. *)
NewRegexpEntityAny(label, global) ==
    /\ Len(entityManager.log) < MaxEntityCalls
    /\ entityManager' =
          [entityManager EXCEPT
              !.log = Append(@, [op |-> "new",
                                 arg |-> [label |-> label, id |-> 1, global |-> global],
                                 result |-> "ok"])]
    /\ UNCHANGED <<convos, stores, locks, calls, routines, frames, mq, actor, drv,
                   middlewares, setup, classifier>>

(* new RegexpEntity({ label, match }) (regexp.ts 21-27) *)
NewRegexpEntity(label, global) ==
    /\ Len(entityManager.log) < MaxEntityCalls
    /\ entityManager' =
          [entityManager EXCEPT
              !.log = Append(@, [op |-> "new",
                                 arg |-> [label |-> label, id |-> 1, global |-> global],
                                 result |-> IF ~global THEN Failure ELSE "ok"])]
    /\ UNCHANGED <<convos, stores, locks, calls, routines, frames, mq, actor, drv,
                   middlewares, setup, classifier>>

(* The pattern extractors that exist. *)
Constructed ==
    {entityManager.log[i].arg : i \in {j \in DOMAIN entityManager.log :
        entityManager.log[j].op = "new" /\ entityManager.log[j].result = "ok"}}

(* RegexpEntity.search (regexp.ts 29-38): String.prototype.matchAll throws *)
(* a TypeError for a pattern without the global flag.                       *)
RegexpSearch(extractor) ==
    /\ Len(entityManager.log) < MaxEntityCalls
    /\ extractor \in Constructed
    /\ entityManager' =
          [entityManager EXCEPT
              !.log = Append(@, [op |-> "matchAll", arg |-> extractor,
                                 result |-> IF extractor.global THEN "ok" ELSE "TypeError"])]
    /\ UNCHANGED <<convos, stores, locks, calls, routines, frames, mq, actor, drv,
                   middlewares, setup, classifier>>

RegexpNext ==
    \/ \E label \in Labels, global \in BOOLEAN : NewRegexpEntity(label, global)
    \/ \E extractor \in PatternExtractors : extractor \in Constructed /\ AddEntity(extractor)
    \/ \E extractor \in PatternExtractors : RegexpSearch(extractor)

RegexpSpec == Init /\ [][RegexpNext]_vars

(* Classifier.buildLabel and Classifier.parseLabel (classifier.ts 200-213). *)
(* A string is the sequence of its characters; "nl" stands for a line       *)
(* terminator, the one kind of character `.` does not match.                *)
MaxLabelLen == 3       \* characters of an intent and of a language
IntentChars == {"a", "/", "nl"}
LanguageChars == {"e", "/"}

(* `${language}/${intent}` *)
BuildLabel(intent, language) == language \o <<"/">> \o intent

Dot(ch) == ch # "nl"

(* The matches of /(.+?)\/(.+)/iu in `label`: a start s and the place p    *)
(* of the slash, with one or more `.` characters between them and one `.`  *)
(* character at least after the slash.                                      *)
LabelMatches(label) ==
    {m \in [s : DOMAIN label, p : DOMAIN label] :
        /\ m.s < m.p
        /\ \A k \in m.s..(m.p - 1) : Dot(label[k])
        /\ label[m.p] = "/"
        /\ m.p < Len(label)
        /\ Dot(label[m.p + 1])}

(* `match` is null: `match!.slice(1)` throws a TypeError. *)
NoMatch == [matched |-> FALSE, intent |-> <<>>, language |-> <<>>]

(* The end of the greedy (.+) that starts at position k. *)
RunEnd(label, k) ==
    CHOOSE j \in k..Len(label) :
        /\ \A i \in k..j : Dot(label[i])
        /\ (j = Len(label) \/ ~Dot(label[j + 1]))

(* Classifier.parseLabel (classifier.ts 209-213): String.prototype.match   *)
(* returns the leftmost match, the lazy group as short as it can be, or    *)
(* null, and `match!.slice(1)` of null throws a TypeError.                  *)
ParseLabel(label) ==
    LET ms == LabelMatches(label)
    IN  IF ms = {} THEN NoMatch
        ELSE LET m == CHOOSE x \in ms : \A y \in ms :
                         x.s < y.s \/ (x.s = y.s /\ x.p <= y.p)
             IN  [matched |-> TRUE,
                  intent |-> SubSeq(label, m.p + 1, RunEnd(label, m.p + 1)),
                  language |-> SubSeq(label, m.s, m.p - 1)]

(* A label is built for a document (classifier.ts 99) and parsed when it   *)
(* comes back from the classifier (classifier.ts 135); the pair is written *)
(* to the log of calls.                                                     *)
LabelRoundTrip(intent, language) ==
    /\ classifier' = Logged(classifier, "label",
                            [intent |-> intent, language |-> language],
                            ParseLabel(BuildLabel(intent, language)))
    /\ UNCHANGED <<convos, stores, locks, calls, routines, frames, mq, actor, drv,
                   middlewares, setup, entityManager>>

LabelNext ==
    /\ classifier.log = <<>>
    /\ \E m, n \in 0..MaxLabelLen :
          \E intent \in [1..m -> IntentChars], language \in [1..n -> LanguageChars] :
             LabelRoundTrip(intent, language)

LabelSpec == Init /\ [][LabelNext]_vars

(* The response object of a conversation turn (bot.ts 238-246, 270-311).   *)
(* Bot.classify builds the response of a request with all five fields      *)
(* (answer null); the handler's say/ask yields { ...res, ...upd } where res *)
(* is the response object of the request that started the conversation     *)
(* (captured by the closure of Step 2C), and Step 2A copies the yielded     *)
(* object over the response of the current request with Object.assign.      *)
(* A field value "of:t" stands for what Bot.classify computes for text t.  *)
MaxTurns == 3

TurnTexts == {"t1", "t2"}

ResponseKeys == {"language", "intent", "answer", "classifications", "entities"}

BasicResponse(text) ==
    [language |-> <<"of", text>>, intent |-> <<"of", text>>, answer |-> <<Null>>,
     classifications |-> <<"of", text>>, entities |-> <<"of", text>>]

(* Partial<BotResponse>: the argument of say/ask, any subset of the fields *)
(* the model varies.                                                       *)
UpdKeys == {"answer", "intent"}

UpdValues == {<<"u1">>, <<"u2">>}

Updates == UNION {[K -> UpdValues] : K \in SUBSET UpdKeys}

(* { ...a, ...b } with the fields of a kept; the model's broken variant.   *)
SpreadKeep(a, b) ==
    [k \in DOMAIN a \cup DOMAIN b |-> IF k \in DOMAIN a THEN a[k] ELSE b[k]]

(* { ...a, ...b } and Object.assign(a, b): the fields of b win.            *)
Spread(a, b) ==
    [k \in DOMAIN a \cup DOMAIN b |-> IF k \in DOMAIN b THEN b[k] ELSE a[k]]

(* The first turn: Step 2C stores the routine whose closure holds res, the *)
(* rerun's Step 2A runs the handler up to its first say/ask(upd) and       *)
(* assigns the yielded object to res, which is the closure's object too.   *)
StartTurn(text, upd) ==
    LET res == BasicResponse(text)
        convoResponse == Spread(res, upd)
        assigned == Spread(res, convoResponse)
    IN  /\ convos["A"] = 0
        /\ calls = <<>>
        /\ routines' = <<[res |-> assigned]>>
        /\ convos' = [convos EXCEPT !["A"] = 1]
        /\ calls' = <<[text |-> text, upd |-> upd, res |-> assigned]>>
        /\ UNCHANGED <<stores, locks, frames, mq, actor, drv, middlewares, setup,
                       classifier, entityManager>>

(* A continued turn: Step 2A resumes the handler, whose next say/ask(upd)  *)
(* spreads the closure's res, and assigns the yielded object to the        *)
(* response of the current request.  The closure's object is not written.  *)
ContinueTurn(text, upd) ==
    LET res == BasicResponse(text)
        convoResponse == Spread(routines[convos["A"]].res, upd)
    IN  /\ convos["A"] # 0
        /\ Len(calls) < MaxTurns
        /\ calls' = Append(calls, [text |-> text, upd |-> upd,
                                   res |-> Spread(res, convoResponse)])
        /\ UNCHANGED <<convos, stores, locks, routines, frames, mq, actor, drv,
                       middlewares, setup, classifier, entityManager>>

TurnNext ==
    \E text \in TurnTexts, upd \in Updates :
        \/ StartTurn(text, upd)
        \/ ContinueTurn(text, upd)

TurnSpec == Init /\ [][TurnNext]_vars

(* One user talks to a bot one of whose documents declares both answers    *)
(* and a handler (bot.ts 288-311: Step 2B is tested before Step 2C).        *)
BothTexts == {"both", "greet", "empty"}

BothNext ==
    \/ Len(calls) < MaxCalls /\ \E t \in BothTexts : Request("A", t)
    \/ \E c \in 1..MaxCalls : ClassifyDone(c)
    \/ RunThenable
    \/ RunSettle
    \/ RunCont
    \/ RunArrow
    \/ RunResume
    \/ RunCatch
    \/ RunFinally
    \/ RunAfterAnswer
    \/ RunAfterMw
    \/ RunLockDone
    \/ RunResolve
    \/ RunDeliver

BothSpec == Init /\ [][BothNext]_vars

(* Two users talk to the bot. *)
UsersTexts == {"greet", "empty", "slow", "bye"}

UsersNext ==
    \/ Len(calls) < MaxUsersCalls /\ \E u \in Users, t \in UsersTexts :
           (Len(calls) = 0 => u = "A") /\ Request(u, t)
    \/ \E c \in 1..MaxUsersCalls : ClassifyDone(c)
    \/ \E r \in 1..MaxRoutines : Wake(r)
    \/ RunThenable
    \/ RunSettle
    \/ RunCont
    \/ RunArrow
    \/ RunResume
    \/ RunCatch
    \/ RunFinally
    \/ RunAfterAnswer
    \/ RunAfterMw
    \/ RunLockDone
    \/ RunResolve
    \/ RunDeliver

UsersSpec == Init /\ [][UsersNext]_vars

-----------------------------------------------------------------------------
(* A routine used on its own (the tests of class Routine): one caller      *)
(* makes process calls one after another, each awaited; the k-th call      *)
(* passes the input k.                                                      *)

MaxScriptLen == 3

Steps == {Yield("a"), Yield("b"), Yield(""), Wait, Throw}

RECURSIVE SeqsUpTo(_, _)
SeqsUpTo(S, n) ==
    IF n = 0 THEN {<<>>}
    ELSE LET shorter == SeqsUpTo(S, n - 1)
         IN  shorter \cup {Append(q, x) : q \in {p \in shorter : Len(p) = n - 1}, x \in S}

Scripts == SeqsUpTo(Steps, MaxScriptLen)

DriverCall ==
    /\ ~drv.busy
    /\ Len(drv.ins) < MaxDriverCalls
    /\ LET d == Len(drv.ins) + 1
           f == Len(frames) + 1
       IN  /\ Commit(RoutineProcess([St EXCEPT !.frames = Append(@, NewFrame(0, 1, TRUE))],
                                    1, d, f))
           /\ drv' = [drv EXCEPT !.ins = Append(@, d), !.busy = TRUE]
    /\ UNCHANGED actor

(* The caller continues after `await routine.process(input)`. *)
RunContDriver ==
    /\ Job("cont")
    /\ frames[Head(mq).id].call = 0
    /\ LET f == Head(mq).id
       IN  /\ Commit([Pop(St) EXCEPT !.frames[f].open = FALSE])
           /\ drv' = [drv EXCEPT !.busy = FALSE,
                                 !.outs = Append(@, IF frames[f].st = "err" THEN Failure
                                                    ELSE frames[f].val)]
    /\ UNCHANGED actor

RoutineInit ==
    /\ convos = [u \in Users |-> 0]
    /\ stores = [u \in Users |-> NoStore]
    /\ locks = [u \in Users |-> [holder |-> 0, q |-> <<>>]]
    /\ calls = <<>>
    /\ \E script \in Scripts : routines = <<NewRoutine(0, NoUser, script)>>
    /\ frames = <<>>
    /\ mq = <<>>
    /\ actor = NoUser
    /\ drv = Idle
    /\ middlewares = <<>>
    /\ setup = NoSetup
    /\ classifier = Trained
    /\ entityManager = NoEntities

RoutineNext ==
    \/ DriverCall
    \/ Wake(1)
    \/ RunThenable
    \/ RunSettle
    \/ RunContDriver
    \/ RunResume
    \/ RunCatch
    \/ RunFinally

RoutineSpec == RoutineInit /\ [][RoutineNext]_vars

(* The routine used as an async iterator (shell.ts 130-137, part_006 30-40): *)
(* the caller makes next calls one after another, each awaited.  next calls *)
(* process at once and, when the awaited value arrives, tests it with `!`;  *)
(* of the model's values `undefined` and the empty string are falsy.  The   *)
(* caller notes with each result what isDone() returns at that moment.      *)
Truthy(value) == value \notin {Undefined, ""}

IteratorResult(value) ==
    IF ~Truthy(value) THEN [done |-> TRUE, value |-> Undefined]
    ELSE [done |-> FALSE, value |-> value]

(* next continues after `await this.process(data)` and returns. *)
RunContIter ==
    /\ Job("cont")
    /\ frames[Head(mq).id].call = 0
    /\ LET f == Head(mq).id
           result == IteratorResult(frames[f].val)
       IN  /\ Commit([Pop(St) EXCEPT !.frames[f].open = FALSE])
           /\ drv' = [drv EXCEPT
                        !.busy = FALSE,
                        !.outs = Append(@, [rejected |-> frames[f].st = "err",
                                            done |-> result.done,
                                            value |-> result.value,
                                            raw |-> frames[f].val,
                                            isDone |-> routines[1].resolved,
                                            atYield |-> routines[1].yts = "pending"])]
    /\ UNCHANGED actor

IterNext ==
    \/ DriverCall
    \/ Wake(1)
    \/ RunThenable
    \/ RunSettle
    \/ RunContIter
    \/ RunResume
    \/ RunCatch
    \/ RunFinally

IterSpec == RoutineInit /\ [][IterNext]_vars

-----------------------------------------------------------------------------
(* Claims *)

UserOf(c) == calls[c].user
Done(c) == c \in DOMAIN calls /\ calls[c].phase = "done"
Holds(c) == locks[LockKey(UserOf(c))].holder = c

(* C1: two Bot.process calls of one user are serialized: while a           *)
(* processAnswer activation made for one call is unfinished (the handler   *)
(* turn it started or resumed has not yielded or finished, or its outcome  *)
(* is not yet handled), that call holds the user's lock and no other call  *)
(* of the user is inside processAnswer.                                     *)
SameUserSerialized ==
    \A f \in DOMAIN frames :
        (frames[f].call # 0 /\ frames[f].open) =>
            /\ Holds(frames[f].call)
            /\ \A c \in DOMAIN calls :
                   (c # frames[f].call /\ UserOf(c) = UserOf(frames[f].call))
                       => calls[c].phase # "answer"

(* The next Bot.process call of the same user (0: none yet). *)
NextOf(c) ==
    LET later == {d \in DOMAIN calls : d > c /\ UserOf(d) = UserOf(c)}
    IN  IF later = {} THEN 0 ELSE CHOOSE d \in later : \A e \in later : d <= e

(* The conversations of the handlers that call ask("p"), then say("r"). *)
Greetings == {r \in DOMAIN routines : routines[r].owner # 0
                                     /\ calls[routines[r].owner].text \in {"greet", "slow"}}

(* C2: conversation continuity: the Bot.process call that starts a         *)
(* conversation of the handler ask("p"); say("r") returns p, and the next  *)
(* call of that user returns r, its request being what ask resolved to.    *)
Continuity ==
    \A r \in Greetings :
        LET c1 == routines[r].owner
            c2 == NextOf(c1)
        IN  /\ Done(c1) => calls[c1].out = "p"
            /\ (c2 # 0 /\ Done(c2)) =>
                   /\ calls[c2].out = "r"
                   /\ routines[r].got # <<>>
                   /\ routines[r].got[1] = c2

(* What one user can see of the bot: the user's routine, store, lock,     *)
(* calls (with their responses), routines and processAnswer activations.   *)
UserView(u) ==
    <<convos[u], stores[u], locks[u],
      [c \in {d \in DOMAIN calls : UserOf(d) = u} |-> calls[c]],
      [r \in {q \in DOMAIN routines : routines[q].user = u} |-> routines[r]],
      [f \in {g \in DOMAIN frames : frames[g].call # 0 /\ UserOf(frames[g].call) = u}
          |-> frames[f]]>>

(* No data of one user is stored with, or delivered to, another user. *)
NoCrossFlow ==
    /\ \A u \in Users :
          /\ convos[u] # 0 => routines[convos[u]].user = u
          /\ stores[u].name # 0 => UserOf(stores[u].name) = u
          /\ locks[u].holder # 0 => UserOf(locks[u].holder) = u
    /\ \A f \in DOMAIN frames :
          frames[f].call # 0 => routines[frames[f].routine].user = UserOf(frames[f].call)
    /\ \A r \in DOMAIN routines :
          routines[r].owner # 0 =>
              /\ UserOf(routines[r].owner) = routines[r].user
              /\ \A i \in DOMAIN routines[r].got : UserOf(routines[r].got[i]) = routines[r].user

LockPerUser ==
    /\ \A c \in DOMAIN calls :
          calls[c].phase = "queued" =>
              \E u \in Users : /\ \E i \in DOMAIN locks[u].q : locks[u].q[i] = c
                               /\ locks[u].holder # 0
                               /\ locks[u].holder # c
                               /\ UserOf(locks[u].holder) = UserOf(c)
    /\ \A u \in Users : \A i \in DOMAIN locks[u].q : calls[locks[u].q[i]].phase = "queued"

LockPerUserWitness ==
    \E a, b \in DOMAIN calls :
        /\ a < b /\ UserOf(a) # UserOf(b)
        /\ NextOf(a) = 0 /\ \A d \in DOMAIN calls : d < a => UserOf(d) # UserOf(a)
        /\ Holds(a) /\ calls[a].phase \in {"classify", "answer"}
        /\ Done(b)

(* C5: when a handler throws during a turn, the Bot.process call that     *)
(* started or resumed that turn rejects with the handler's error.          *)
HandlerErrorPropagates ==
    \A c \in DOMAIN calls : (Done(c) /\ calls[c].threw) => calls[c].out = Failure

(* C7: one request re-enters processAnswer a bounded number of times:     *)
(* after one active routine was found done and discarded, the re-run for  *)
(* the same request does not end with another done routine and re-run.    *)
RerunsBounded ==
    \A c \in DOMAIN calls : calls[c].reruns <= 1

(* C8: one routine at most is stored per user, and a new routine is       *)
(* stored for a user only when the user has no stored routine or the      *)
(* stored one is done (it was found done and removed): a routine that is  *)
(* suspended at a yield and not done is never replaced by a new one.       *)
NoLiveRoutineReplaced ==
    [][\A u \in Users :
          (convos'[u] # convos[u] /\ convos'[u] # 0) =>
              \/ convos[u] = 0
              \/ routines[convos[u]].resolved
              \/ routines[convos[u]].yts # "pending"]_vars

(* The response of the dispatch of bot.ts 288-311 for the request of c:   *)
(* a fixed answer, a new conversation, or the null answer.                 *)
NormalDispatch(c) ==
    LET intent == Intent(calls[c].text) IN
    IF intent = Null THEN calls[c].out = Null
    ELSE IF Docs[intent].hasAnswers
         THEN \E i \in DOMAIN Docs[intent].answers : calls[c].out = Docs[intent].answers[i]
         ELSE IF Docs[intent].hasHandler
              THEN \E r \in DOMAIN routines : routines[r].owner = c
              ELSE calls[c].out = Null

RECURSIVE Effective(_)
Effective(script) ==
    IF script = <<>> THEN <<>>
    ELSE IF Head(script).op = "throw" THEN <<Head(script)>>
    ELSE <<Head(script)>> \o Effective(Tail(script))

(* What the successive process calls of a script return: its yielded      *)
(* outputs in order, the failure if it throws, then undefined.             *)
RECURSIVE Outputs(_, _)
Outputs(script, n) ==
    IF n = 0 THEN <<>>
    ELSE IF script = <<>> THEN <<Undefined>> \o Outputs(script, n - 1)
    ELSE CASE Head(script).op = "yield" ->
                  <<Head(script).answer>> \o Outputs(Tail(script), n - 1)
           [] Head(script).op = "throw" -> <<Failure>> \o Outputs(<<>>, n - 1)
           [] OTHER -> Outputs(Tail(script), n)

(* The yields of the script that ran before position pc. *)
YieldsBefore(script, pc) ==
    Cardinality({i \in DOMAIN Effective(script) :
                    i < pc /\ Effective(script)[i].op = "yield"})

(* C9: Routine.process returns the yielded outputs of the script in the   *)
(* order the script yields them, one per call, undefined on the call      *)
(* during which the script finishes and on every later call, and the      *)
(* script is never run a second time.                                      *)
OutputsInOrder ==
    /\ drv.outs = Outputs(routines[1].script, Len(drv.outs))
    /\ routines[1].runs <= 1

OutputsInOrderWitness ==
    /\ Len(drv.outs) >= 4
    /\ drv.outs[1] = "a" /\ drv.outs[2] = "b"
    /\ drv.outs[3] = Undefined /\ drv.outs[4] = Undefined
    /\ routines[1].resolved

(* C10: the input of the first process call only starts the script and   *)
(* reaches no yield; the k-th yield of the script returns the input of    *)
(* the (k+1)-th process call: no input is lost, duplicated or reordered.  *)
InputsDelivered ==
    LET rt == routines[1] IN
    /\ \A k \in DOMAIN rt.got : k + 1 \in DOMAIN drv.ins /\ rt.got[k] = drv.ins[k + 1]
    /\ Len(rt.got) <= YieldsBefore(rt.script, rt.pc)
    /\ \A k \in 1..YieldsBefore(rt.script, rt.pc) :
           Len(drv.outs) >= k + 1 => Len(rt.got) >= k

InputsDeliveredWitness ==
    /\ Len(routines[1].got) = 2
    /\ routines[1].got[1] = drv.ins[2] /\ routines[1].got[2] = drv.ins[3]
    /\ Len(drv.outs) >= 3

(* C11: when the script of a routine throws, the process call pending at  *)
(* that moment rejects with the error (it does not resolve with           *)
(* undefined), no other call rejects, and isDone() is true once the       *)
(* caller has observed the rejection.                                      *)
ThrowRejectsPending ==
    LET rt == routines[1] IN
    /\ rt.failed =>
          /\ rt.turn \in DOMAIN frames
          /\ frames[rt.turn].open => frames[rt.turn].st \in {"pending", "err"}
          /\ ~frames[rt.turn].open =>
                /\ frames[rt.turn].st = "err"
                /\ frames[rt.turn].val = Failure
                /\ drv.outs[rt.turn] = Failure
    /\ \A f \in DOMAIN frames :
          frames[f].st = "err" => (rt.failed /\ f = rt.turn)
    /\ \A k \in DOMAIN drv.outs : drv.outs[k] = Failure => rt.resolved

ThrowRejectsPendingWitness ==
    /\ Len(drv.outs) >= 2
    /\ drv.outs[1] = "a"
    /\ drv.outs[2] = Failure
    /\ routines[1].resolved

(* The activation of processAnswer that call c awaits found a routine    *)
(* which yielded a result and was not done (bot.ts 279-280).              *)
Continued(f) ==
    /\ frames[f].call # 0 /\ frames[f].awaited /\ ~frames[f].open
    /\ frames[f].st = "ok" /\ frames[f].val # Undefined /\ ~frames[f].sawDone

(* C12: an active conversation has priority over classification: when    *)
(* the user's routine, resumed with the request, yields a result and is   *)
(* not done, Bot.process returns that result whatever the request text    *)
(* classifies to: no fixed answer is picked, no routine is started.       *)
ConversationFirst ==
    \A f \in DOMAIN frames :
        Continued(f) =>
            LET c == frames[f].call IN
            /\ calls[c].answer = frames[f].val
            /\ Done(c) => calls[c].out = frames[f].val
            /\ calls[c].reruns = 0
            /\ \A r \in DOMAIN routines : routines[r].owner # c

ConversationFirstWitness ==
    \E f \in DOMAIN frames :
        /\ Continued(f)
        /\ calls[frames[f].call].text = "bye"
        /\ frames[f].val = "r"
        /\ Done(frames[f].call)

(* The activation of processAnswer that call c awaits found a routine    *)
(* suspended at a yield, which continued with the request of c and        *)
(* returned nothing: it finished without yielding (bot.ts 282-285).       *)
Discarded(f) ==
    /\ frames[f].call # 0 /\ frames[f].awaited /\ ~frames[f].open
    /\ frames[f].st = "ok" /\ frames[f].val = Undefined
    /\ \E i \in DOMAIN routines[frames[f].routine].got :
           routines[frames[f].routine].got[i] = frames[f].call

(* The response of a dispatch from scratch of the request of call c: a   *)
(* fixed answer, the first output of the handler, or the null answer.     *)
FreshResult(c) ==
    LET intent == Intent(calls[c].text) IN
    IF intent = Null THEN calls[c].out = Null
    ELSE IF Docs[intent].hasAnswers
         THEN \E i \in DOMAIN Docs[intent].answers : calls[c].out = Docs[intent].answers[i]
         ELSE IF Docs[intent].hasHandler
              THEN LET first == Outputs(Docs[intent].handler, 1)[1]
                   IN  first \notin {Undefined, Failure} => calls[c].out = first
              ELSE calls[c].out = Null

(* C13: when the user's routine, resumed with the request, finishes      *)
(* without yielding, the routine is removed and the request is dispatched *)
(* from scratch within the same Bot.process call, whose response carries  *)
(* the result of that dispatch.                                            *)
FreshDispatch ==
    \A f \in DOMAIN frames :
        Discarded(f) =>
            LET c == frames[f].call IN
            /\ convos[UserOf(c)] # frames[f].routine
            /\ calls[c].reruns >= 1
            /\ Done(c) => FreshResult(c)

-----------------------------------------------------------------------------
(* Bot.classify called directly: the gating of the intent (bot.ts 192-231). *)
(* Scores are hundredths: the classifier rounds them to two decimals        *)
(* (classifier.ts 134, 186).                                                *)

MinThreshold == 75     \* opts.minThreshold ?? 0.75
MinDeviation == 5      \* opts.minDeviation ?? 0.05
MaxMatches == 2        \* classifications in one list

Scores == {70, 74, 75, 76, 80}
Intents == {"greet", "slow", "bye"}

(* The lists a classifier returns: distinct labels, positive scores,       *)
(* sorted by falling score (classifier.ts 138, 189-191).                    *)
ClassifierLists ==
    {l \in UNION {[1..n -> [intent : Intents, score : Scores]] : n \in 0..MaxMatches} :
        /\ \A i, j \in DOMAIN l : i < j => (l[i].score >= l[j].score /\ l[i].intent # l[j].intent)}

ScoreAt(classifications, i) ==
    IF i \in DOMAIN classifications THEN classifications[i].score ELSE 0

(* Steps 2 and 3 of Bot.classify with a `>` for the deviation. *)
ClassifyStrict(clsOriginal, clsTemplate) ==
    LET classifications == IF ScoreAt(clsOriginal, 1) >= ScoreAt(clsTemplate, 1)
                           THEN clsOriginal ELSE clsTemplate
        headScore == ScoreAt(classifications, 1)
        nextScore == ScoreAt(classifications, 2)
        deviation == headScore - nextScore
    IN  [intent |-> IF headScore >= MinThreshold /\ deviation > MinDeviation
                    THEN classifications[1].intent ELSE Null,
         answer |-> Null,
         classifications |-> classifications]

(* Steps 2, 3 and 5 of Bot.classify (bot.ts 200-230). *)
Classify(clsOriginal, clsTemplate) ==
    LET classifications == IF ScoreAt(clsOriginal, 1) >= ScoreAt(clsTemplate, 1)
                           THEN clsOriginal ELSE clsTemplate
        headScore == ScoreAt(classifications, 1)
        nextScore == ScoreAt(classifications, 2)
        deviation == headScore - nextScore
    IN  [intent |-> IF headScore >= MinThreshold /\ deviation >= MinDeviation
                    THEN classifications[1].intent ELSE Null,
         answer |-> Null,
         classifications |-> classifications]

(* A caller awaits bot.classify(req); the classifier gives the two lists. *)
DirectClassify ==
    /\ drv.ins = <<>>
    /\ \E o, t \in ClassifierLists :
          drv' = [drv EXCEPT !.ins = Append(@, [original |-> o, template |-> t]),
                             !.outs = Append(@, Classify(o, t))]
    /\ UNCHANGED <<convos, stores, locks, calls, routines, frames, mq, actor, middlewares, setup, classifier, entityManager>>

ClassifyNext == DirectClassify

ClassifySpec == Init /\ [][ClassifyNext]_vars

(* The highest score of a list, and the highest of the others (0 when absent). *)
TopScore(l) == IF l = <<>> THEN 0 ELSE CHOOSE x \in {l[i].score : i \in DOMAIN l} :
                                          \A i \in DOMAIN l : l[i].score <= x
SecondScore(l) ==
    IF Len(l) < 2 THEN 0
    ELSE LET t == CHOOSE i \in DOMAIN l : l[i].score = TopScore(l)
         IN  CHOOSE x \in {l[i].score : i \in DOMAIN l \ {t}} :
                 \A i \in DOMAIN l \ {t} : l[i].score <= x

DispatchesAfresh(c) ==
    /\ calls[c].phase = "classify"
    /\ calls'[c].phase # "classify"
    /\ convos[UserOf(c)] = 0

HasAnswers(t) == Intent(t) # Null /\ Docs[Intent(t)].hasAnswers
HasHandler(t) == Intent(t) # Null /\ Docs[Intent(t)].hasHandler

DispatchStep ==
    \A c \in DOMAIN calls :
        DispatchesAfresh(c) =>
            /\ HasAnswers(calls[c].text) =>
                  /\ \E i \in DOMAIN Docs[Intent(calls[c].text)].answers :
                        calls'[c].answer = Docs[Intent(calls[c].text)].answers[i]
                  /\ routines' = routines
                  /\ convos' = convos
            /\ (~HasAnswers(calls[c].text) /\ ~HasHandler(calls[c].text)) =>
                  /\ calls'[c].answer = Null
                  /\ routines' = routines
                  /\ convos' = convos
                  /\ stores' = stores

(* Call c was dispatched without an active routine and started none. *)
Dispatched(c) ==
    /\ Done(c)
    /\ \A f \in DOMAIN frames : frames[f].call # c
    /\ \A r \in DOMAIN routines : routines[r].owner # c

LastToRun ==
    IF \E i \in DOMAIN middlewares : middlewares[i] = "stop"
    THEN CHOOSE i \in DOMAIN middlewares :
             /\ middlewares[i] = "stop"
             /\ \A j \in 1..(i - 1) : middlewares[j] # "stop"
    ELSE Len(middlewares)

(* C16: the middlewares run in registration order, each at most once per  *)
(* request; after a middleware calls stop() no later middleware is        *)
(* invoked for the request, and Bot.process still returns the response.   *)
MiddlewareOrder ==
    \A c \in DOMAIN calls :
        /\ Len(calls[c].ran) <= LastToRun
        /\ \A k \in DOMAIN calls[c].ran : calls[c].ran[k].i = k
        /\ (calls[c].phase \in {"released", "done"} /\ ~calls[c].err) =>
               Len(calls[c].ran) = LastToRun
        /\ Done(c) => calls[c].out # Failure

MiddlewareOrderWitness ==
    /\ middlewares = <<"stop", "fill">>
    /\ \E c \in DOMAIN calls :
          /\ Done(c)
          /\ Len(calls[c].ran) = 1
          /\ calls[c].text = "other"
          /\ calls[c].out = Null

(* C17: every middleware invocation for a request happens after the      *)
(* answer of the request is fully determined: once a middleware has run   *)
(* for a call, no processAnswer activation of that call is unfinished     *)
(* (its handler turn has yielded or finished and the output is merged     *)
(* into the response), so the answer a middleware read does not change.   *)
AnswerBeforeMiddleware ==
    \A f \in DOMAIN frames :
        (frames[f].call # 0 /\ frames[f].open) => calls[frames[f].call].ran = <<>>

StoreStays(u) ==
    stores[u].exists =>
        /\ stores'[u].exists
        /\ stores'[u].id = stores[u].id
        /\ stores[u].name # 0 => stores'[u].name # 0

(* C19: the store of a user is created on the first handler invocation   *)
(* for the user and is never removed or replaced afterwards: every later  *)
(* handler invocation for the user, in the same or a later conversation,  *)
(* receives that store with the keys written earlier.                      *)
StoreKept ==
    /\ [](\A u \in Users :
            /\ stores[u].exists <=>
                   \E r \in DOMAIN routines : routines[r].owner # 0 /\ routines[r].user = u
            /\ \A r \in DOMAIN routines :
                   (routines[r].owner # 0 /\ routines[r].user = u) =>
                       routines[r].store = stores[u].id)
    /\ [][\A u \in Users : StoreStays(u)]_vars

StoreKeptWitness ==
    \E q, r \in DOMAIN routines :
        /\ q < r
        /\ routines[q].user = "A" /\ routines[r].user = "A"
        /\ routines[q].script = Docs["greet"].handler
        /\ routines[q].resolved
        /\ routines[r].script = Docs["greet"].handler
        /\ routines[r].store = routines[q].store
        /\ stores["A"].name # 0
        /\ routines[r].started

(* C20: Bot.addDocument with an intent that is already registered fails   *)
(* with a configuration error and leaves the registered document of the   *)
(* intent and the training pairs of the classifier unchanged.              *)
DuplicateIntentRejected ==
    [][Len(setup'.log) > Len(setup.log) =>
          LET entry == setup'.log[Len(setup'.log)] IN
          setup.docs[entry.doc.intent] # 0 =>
              /\ entry.result = Failure
              /\ setup'.docs = setup.docs
              /\ setup'.samples = setup.samples]_vars

(* C21: EntityManager.addEntity fails when an extractor with the same     *)
(* label is registered and leaves the registry as it was (the first       *)
(* extractor stays), so the labels of the registry are unique after any   *)
(* sequence of addEntity and removeEntity calls.                           *)
LastEntityCall == entityManager.log[Len(entityManager.log)]

UniqueLabels ==
    /\ [](\A i, j \in DOMAIN entityManager.extractors :
             entityManager.extractors[i].label = entityManager.extractors[j].label
                 => i = j)
    /\ [][LET call == entityManager'.log[Len(entityManager'.log)] IN
          (/\ Len(entityManager'.log) > Len(entityManager.log)
           /\ call.op = "add"
           /\ HasEntity(entityManager, call.arg.label))
          => /\ call.result = Failure
             /\ entityManager'.extractors = entityManager.extractors]_vars

UniqueLabelsWitness ==
    /\ entityManager.log # <<>>
    /\ LastEntityCall.op = "add"
    /\ LastEntityCall.result = Failure
    /\ HasEntity(entityManager, LastEntityCall.arg.label)
    /\ GetEntity(entityManager, LastEntityCall.arg.label).id # LastEntityCall.arg.id

(* C22: Classifier.train (Bot.train) fails when no training pair has been *)
(* added and the engine is then still not trained; after a successful     *)
(* train the engine is ready and classify does not fail with the          *)
(* not-trained error.                                                      *)
LastClassifierCall == classifier.log[Len(classifier.log)]

TrainedOnce ==
    \E i \in DOMAIN classifier.log :
        classifier.log[i].op = "train" /\ classifier.log[i].result = "ok"

TrainReady ==
    /\ [](TrainedOnce => classifier.ready)
    /\ [][LET call == classifier'.log[Len(classifier'.log)] IN
          Len(classifier'.log) > Len(classifier.log) =>
             /\ (call.op = "train" /\ classifier.docs = <<>>)
                   => call.result = Failure /\ ~classifier'.ready
             /\ (call.op = "train" /\ classifier.docs # <<>>)
                   => call.result = "ok" /\ classifier'.ready
             /\ (call.op = "classify" /\ TrainedOnce)
                   => call.result # Failure]_vars

TrainReadyWitness ==
    /\ classifier.ready
    /\ \E i, j \in DOMAIN classifier.log :
          /\ i < j
          /\ classifier.log[i].op = "train" /\ classifier.log[i].result = Failure
          /\ classifier.log[j].op = "train" /\ classifier.log[j].result = "ok"

(* C23: Classifier.classify and Bot.process called before a successful    *)
(* train fail with the not-trained error on every call without calling    *)
(* the external classifier, and Bot.process then invokes no handler and no *)
(* middleware and leaves routines and stores unchanged.                    *)
NotTrainedFails ==
    /\ \A i \in DOMAIN classifier.log :
          (classifier.log[i].op = "classify"
             /\ \A j \in 1..(i - 1) : ~(classifier.log[j].op = "train"
                                        /\ classifier.log[j].result = "ok"))
          => classifier.log[i].result = Failure
    /\ ~classifier.ready => classifier.queue = <<>>
    /\ \A c \in DOMAIN calls :
          ~calls[c].trained =>
             /\ calls[c].ran = <<>>
             /\ calls[c].answer = Null
             /\ calls[c].phase = "done" => calls[c].out = Failure
             /\ \A r \in DOMAIN routines : routines[r].user # calls[c].user
             /\ ~stores[calls[c].user].exists

(* C24: Classifier.addDocument fails when the document has zero examples, *)
(* and the failed call adds no training pair.                              *)
EmptyDocumentRejected ==
    [][LET call == classifier'.log[Len(classifier'.log)] IN
       (Len(classifier'.log) > Len(classifier.log) /\ call.op = "addDocument") =>
          /\ call.arg.examples = <<>> => call.result = Failure
          /\ call.result = Failure => classifier'.docs = classifier.docs]_vars

EmptyDocumentRejectedWitness ==
    /\ classifier.log # <<>>
    /\ LastClassifierCall.op = "addDocument"
    /\ LastClassifierCall.arg.examples = <<>>
    /\ LastClassifierCall.result = Failure
    /\ classifier.docs # <<>>

(* C25: Classifier.classify returns exactly the labels whose score,       *)
(* rounded to 2 decimals, is positive, and of two or more such labels     *)
(* only those whose score is strictly above the arithmetic mean of these  *)
(* scores; a single such label is returned with its score.                *)

(* s is v (thousandths) rounded to hundredths: the nearest, halves up. *)
IsRounded(v, s) == 10 * s - 5 <= v /\ v < 10 * s + 5

(* The labels of a positive rounded score. *)
Surviving(raw) == {i \in DOMAIN raw : \E s \in 1..100 : IsRounded(raw[i], s)}

RECURSIVE SumOver(_, _)
SumOver(f, S) == IF S = {} THEN 0
                 ELSE LET x == CHOOSE y \in S : TRUE IN f[x] + SumOver(f, S \ {x})

ScoresSumToOne ==
    \A k \in DOMAIN classifier.texts :
        (classifier.texts[k].st = "returned" /\ Len(classifier.texts[k].result) > 1)
            => SumScores(classifier.texts[k].result) = 100

(* C27: for an input of several sentences, Classifier.classifyText        *)
(* returns at most one entry per (language, intent) pair, whose score     *)
(* before the normalization is the sum of the pair's scores over all      *)
(* sentences that produced a classification, and the list is sorted by    *)
(* falling score.                                                          *)
ScoreOf(list, label) ==
    IF \E i \in DOMAIN list : list[i].label = label
    THEN list[CHOOSE i \in DOMAIN list : list[i].label = label].score
    ELSE 0

LabelsOf(list) == {list[i].label : i \in DOMAIN list}

(* s is the nearest hundredth of score / total, halves up. *)
IsNormalized(score, total, s) ==
    2 * s * total - total <= 200 * score /\ 200 * score < 2 * s * total + total

MergedAndSorted ==
    \A k \in DOMAIN classifier.texts :
        LET text == classifier.texts[k]
            labels == UNION {LabelsOf(classifier.queue[i].result) : i \in text.tasks}
            sum == [l \in labels |->
                       SumOver([i \in text.tasks |-> ScoreOf(classifier.queue[i].result, l)],
                               text.tasks)]
            total == SumOver(sum, labels)
        IN  text.st = "returned" =>
               /\ \A i, j \in DOMAIN text.result :
                      text.result[i].label = text.result[j].label => i = j
               /\ LabelsOf(text.result) = labels
               /\ LabelsOf(text.merged) = labels
               /\ Len(text.merged) = Cardinality(labels)
               /\ \A l \in labels : ScoreOf(text.merged, l) = sum[l]
               /\ \A l \in labels : IsNormalized(sum[l], total, ScoreOf(text.result, l))
               /\ \A i, j \in DOMAIN text.result :
                      i < j => text.result[i].score >= text.result[j].score

MergedAndSortedWitness ==
    \E k \in DOMAIN classifier.texts :
        /\ classifier.texts[k].st = "returned"
        /\ Len(classifier.texts[k].result) = 2
        /\ classifier.texts[k].result[1].label = "en/bye"
        /\ ScoreOf(classifier.texts[k].merged, "en/bye") = 140
        /\ ScoreOf(classifier.texts[k].merged, "en/greet") = 70

(* C28: at most one call of the external classifier's scoring operation   *)
(* is in progress at any time, whatever classify, classifyText and        *)
(* Bot.process calls of whatever users are pending, and every caller      *)
(* receives the scores computed for its own input.                        *)
InProgress == {i \in DOMAIN classifier.queue : classifier.queue[i].st \in {"running", "scored"}}

OneScoringCall ==
    /\ Cardinality(InProgress) <= 1
    /\ \A i \in DOMAIN classifier.queue :
          LET task == classifier.queue[i] IN
          /\ task.st \in {"scored", "done", "returned"}
                => task.raw = GetClassifications(task.input)
          /\ task.st = "returned"
                => task.result = ClassifierResult(GetClassifications(task.input))

OneScoringCallWitness ==
    /\ Cardinality(InProgress) = 1
    /\ \E i, j, k \in DOMAIN classifier.queue :
          /\ classifier.queue[i].st = "queued" /\ classifier.queue[i].caller = 0
          /\ classifier.queue[j].st = "queued" /\ classifier.queue[j].caller # 0
          /\ classifier.queue[k].st = "queued" /\ classifier.queue[k].caller # 0
          /\ classifier.queue[j].input # classifier.queue[i].input
          /\ calls[classifier.queue[j].caller].user # calls[classifier.queue[k].caller].user

(* C29: no deadlock between the user locks and the classifier queue:      *)
(* every job pushed to the queue is processed and answered in the end,    *)
(* also when Bot.process calls of different users hold their locks while  *)
(* their jobs wait in the queue.                                           *)
(* A task stays in the queue's record and a returned task stays returned, *)
(* so a job is answered in the end exactly when, again and again, every   *)
(* job pushed so far is answered.                                          *)
AllAnswered ==
    \A i \in DOMAIN classifier.queue : classifier.queue[i].st = "returned"

JobsAnswered == []<>AllAnswered

JobsAnsweredWitness ==
    /\ locks["A"].holder # 0
    /\ locks["B"].holder # 0
    /\ \E i, j \in DOMAIN classifier.queue :
          /\ classifier.queue[i].st = "queued" /\ classifier.queue[j].st = "queued"
          /\ classifier.queue[i].caller = locks["A"].holder
          /\ classifier.queue[j].caller = locks["B"].holder

(* C30: for every input and every set of registered extractors, search    *)
(* returns matches sorted by rising start offset, and no two of the spans  *)
(* [index, index + length of source) of the returned matches overlap.      *)
Searches == {i \in DOMAIN entityManager.log : entityManager.log[i].op = "search"}

SpanOf(m) == m.index..(m.index + m.len - 1)

SortedNoOverlap ==
    \A s \in Searches :
        LET found == entityManager.log[s].arg
            res == entityManager.log[s].result
        IN  /\ \A i \in DOMAIN res : \E j \in DOMAIN found : res[i] = found[j]
            /\ \A i, j \in DOMAIN res :
                  i < j => /\ res[i].index <= res[j].index
                           /\ SpanOf(res[i]) \cap SpanOf(res[j]) = {}

SortedNoOverlapWitness ==
    \E s \in Searches :
        LET found == entityManager.log[s].arg
            res == entityManager.log[s].result
        IN  /\ Len(found) = 3 /\ Len(res) = 2
            /\ found[1].index > found[2].index
            /\ res[1].label # res[2].label
            /\ \E i, j \in DOMAIN found :
                  i # j /\ SpanOf(found[i]) \cap SpanOf(found[j]) # {}

(* C31: search is the greedy earliest-start selection.  Scanning the       *)
(* matches of all extractors by rising start offset (matches of one start  *)
(* in the order of the extractors' registration), a match is kept exactly  *)
(* when its start is not below the end of the last match kept before it    *)
(* (0 when none was kept); among matches of one start a later one is kept  *)
(* only after kept matches of length 0.                                    *)
Rank(found, i) ==
    1 + Cardinality({j \in DOMAIN found :
                        \/ found[j].index < found[i].index
                        \/ found[j].index = found[i].index /\ j < i})

Scanned(found) ==
    [k \in DOMAIN found |-> found[CHOOSE i \in DOMAIN found : Rank(found, i) = k]]

EndOfLastKept(s, K, i) ==
    LET before == {j \in K : j < i}
    IN  IF before = {} THEN 0
        ELSE LET last == CHOOSE j \in before : \A k \in before : k <= j
             IN  s[last].index + s[last].len

IsGreedy(s, K) == \A i \in DOMAIN s : i \in K <=> s[i].index >= EndOfLastKept(s, K, i)

Pick(s, K) ==
    [k \in 1..Cardinality(K) |->
        s[CHOOSE i \in K : Cardinality({j \in K : j <= i}) = k]]

GreedySets(s) == {K \in SUBSET DOMAIN s : IsGreedy(s, K)}

GreedyEarliestStart ==
    \A c \in Searches :
        LET s == Scanned(entityManager.log[c].arg)
            sets == GreedySets(s)
        IN  /\ Cardinality(sets) = 1
            /\ \A K \in sets :
                  /\ entityManager.log[c].result = Pick(s, K)
                  /\ \A i, j \in DOMAIN s :
                        i < j /\ s[i].index = s[j].index /\ j \in K
                            => i \in K /\ s[i].len = 0

GreedyEarliestStartWitness ==
    \E c \in Searches :
        LET s == Scanned(entityManager.log[c].arg)
        IN  \E K \in GreedySets(s) :
               /\ Len(s) = 3 /\ Cardinality(K) = 2
               /\ entityManager.log[c].arg # s
               /\ \E i, j \in DOMAIN s :
                     /\ i < j /\ s[i].index = s[j].index /\ s[i].label # s[j].label
                     /\ i \in K /\ j \notin K

(* C31 as stated: among matches of one start offset only the match of the  *)
(* extractor registered first is kept.                                      *)
FirstRegisteredOnly ==
    \A c \in Searches :
        LET s == Scanned(entityManager.log[c].arg)
        IN  \A K \in GreedySets(s) : \A i, j \in DOMAIN s :
               i < j /\ s[i].index = s[j].index => j \notin K

(* C32: template round trip.  For every input, the template of the input   *)
(* and of the matches search returns for it is the input with the span of  *)
(* every kept match replaced by %label%, every character outside the       *)
(* spans unchanged and in its place.                                        *)
Processes == {i \in DOMAIN entityManager.log : entityManager.log[i].op = "process"}

(* The tokens of the kept matches that start at offset p, in their order. *)
RECURSIVE TokensAt(_, _)
TokensAt(entities, p) ==
    IF entities = <<>> THEN <<>>
    ELSE (IF Head(entities).index = p THEN Token(Head(entities).label) ELSE <<>>)
             \o TokensAt(Tail(entities), p)

Covered(entities, p) ==
    \E i \in DOMAIN entities :
        entities[i].index <= p /\ p < entities[i].index + entities[i].len

(* The input read from offset p on: the tokens of the matches that start   *)
(* at p, then the character at p unless a kept span covers it.             *)
RECURSIVE Replaced(_, _, _)
Replaced(input, entities, p) ==
    IF p > Len(input) THEN <<>>
    ELSE TokensAt(entities, p)
             \o (IF p < Len(input) /\ ~Covered(entities, p) THEN <<input[p + 1]>> ELSE <<>>)
             \o Replaced(input, entities, p + 1)

TemplateRoundTrip ==
    \A c \in Processes :
        LET call == entityManager.log[c]
        IN  call.result.template = Replaced(call.arg.input, call.result.entities, 0)

TemplateRoundTripWitness ==
    \E c \in Processes :
        LET call == entityManager.log[c]
        IN  /\ Len(call.result.entities) = 2
            /\ call.result.entities[1].len = 1
            /\ call.result.entities[2].len = 1
            /\ call.result.entities[1].index = 0
            /\ call.result.entities[2].index = 2
            /\ call.arg.input = <<"x", "y", "x">>
            /\ call.result.template = <<"%", "a", "%", "y", "%", "b", "%">>

(* C33: in EnumEntity.search every returned match has as index the offset, *)
(* in the original input, of the token occurrence that produced it; two    *)
(* occurrences of one token get two indexes and no two returned matches    *)
(* share a source position.                                                 *)
EnumSearches == {i \in DOMAIN entityManager.log : entityManager.log[i].op = "enum"}

EnumPositions ==
    \A c \in EnumSearches :
        LET res == entityManager.log[c].result
        IN  /\ \A i \in DOMAIN res : res[i].index = res[i].at
            /\ \A i, j \in DOMAIN res :
                  i # j => (res[i].index..(res[i].index + Len(res[i].source) - 1))
                              \cap (res[j].index..(res[j].index + Len(res[j].source) - 1)) = {}

(* C34: constructing a RegexpEntity with a pattern without the global flag *)
(* fails with a configuration error, so no pattern extractor without the   *)
(* flag is ever registered or searched.                                     *)
GlobalFlagRequired ==
    /\ \A i \in DOMAIN entityManager.log :
          LET call == entityManager.log[i]
          IN  /\ call.op = "new" /\ ~call.arg.global => call.result = Failure
              /\ call.op \in {"add", "matchAll"} => call.arg.global
              /\ call.op = "matchAll" => call.result = "ok"
    /\ \A i \in DOMAIN entityManager.extractors : entityManager.extractors[i].global

GlobalFlagRequiredWitness ==
    /\ Len(entityManager.log) = 3
    /\ entityManager.log[1].op = "new" /\ entityManager.log[1].result = Failure
    /\ entityManager.log[2].op = "new" /\ entityManager.log[2].result = "ok"
    /\ entityManager.log[3].op = "add" /\ entityManager.log[3].result = "ok"
    /\ entityManager.log[1].arg.label = entityManager.log[2].arg.label

(* C35: label round trip.  For every intent (also one that contains '/')   *)
(* and every language code without '/', parsing the label built from the   *)
(* intent and the language returns that intent and that language.  The     *)
(* empty string is not taken for a language code.                           *)
LabelCalls == {i \in DOMAIN classifier.log : classifier.log[i].op = "label"}

HasChar(str, ch) == \E i \in DOMAIN str : str[i] = ch

LabelRoundTripHolds ==
    \A c \in LabelCalls :
        LET call == classifier.log[c]
        IN  call.arg.language # <<>> /\ ~HasChar(call.arg.language, "/")
                => /\ call.result.matched
                   /\ call.result.intent = call.arg.intent
                   /\ call.result.language = call.arg.language

(* C36: after a Bot.process call of a user has rejected (the classifier is *)
(* not trained, or a handler fails) the lock of the user is released: the  *)
(* call does not hold the key any more and a later call of the user is not *)
(* blocked, it runs to completion.                                          *)
Rejected(c) == c \in DOMAIN calls /\ calls[c].out = Failure

LockFreeOf(c) ==
    LET k == LockKey(calls[c].user)
    IN  locks[k].holder # c /\ \A i \in DOMAIN locks[k].q : locks[k].q[i] # c

(* A call that is done stays done and a rejected call stays rejected, so   *)
(* the later calls run to completion exactly when, again and again, every  *)
(* call made so far after a rejected one is done.                           *)
LaterCallsDone ==
    \A c, d \in DOMAIN calls : c < d /\ Rejected(c) => calls[d].phase = "done"

ReleasedAfterReject ==
    /\ [](\A c \in DOMAIN calls : Rejected(c) => LockFreeOf(c))
    /\ []<>LaterCallsDone

ReleasedAfterRejectWitness ==
    /\ Len(calls) = 3
    /\ calls[1].out = "q"
    /\ calls[2].out = Failure /\ calls[2].trained
    /\ calls[3].phase = "done" /\ calls[3].out = "q"


(* C37: in a continued conversation turn every field of the response       *)
(* returned by Bot.process is the field of the ask/say argument of that     *)
(* turn when the argument has it, and otherwise the field of the            *)
(* conversation's first response: the answer of the first response, and     *)
(* for intent, language, classifications and entities what Bot.classify     *)
(* computed for the request that started the conversation (or what the      *)
(* first ask/say put in its place), never what it computed for the current  *)
(* request.                                                                 *)
FirstResponseField(key) ==
    IF key \in DOMAIN calls[1].upd THEN calls[1].upd[key]
    ELSE IF key = "answer" THEN <<Null>>
    ELSE <<"of", calls[1].text>>

ContinuedTurnCarriesFirst ==
    \A k \in DOMAIN calls : \A key \in ResponseKeys :
        /\ calls[1].res[key] = FirstResponseField(key)
        /\ k > 1 =>
              calls[k].res[key] = IF key \in DOMAIN calls[k].upd
                                  THEN calls[k].upd[key]
                                  ELSE FirstResponseField(key)

ContinuedTurnCarriesFirstWitness ==
    /\ Len(calls) = 3
    /\ calls[1].text = "t1" /\ calls[3].text = "t2"
    /\ DOMAIN calls[1].upd = {"answer"} /\ calls[1].upd["answer"] = <<"u1">>
    /\ DOMAIN calls[2].upd = {"answer", "intent"}
    /\ calls[2].upd["answer"] = <<"u2">>
    /\ DOMAIN calls[3].upd = {}
    /\ calls[3].res["answer"] = <<"u1">>
    /\ calls[3].res["intent"] = <<"of", "t1">>
    /\ calls[3].res["entities"] = <<"of", "t1">>


(* C38: a call whose accepted intent's document declares both answers and  *)
(* a handler never constructs a routine; when the user has no stored       *)
(* routine as processAnswer runs for it, that step sets the answer to one   *)
(* of the document's answers and leaves Bot.convos and the routines as     *)
(* they are, and the call returns that answer.                              *)
BothAnswers == {Docs["both"].answers[i] : i \in DOMAIN Docs["both"].answers}

AskedBoth(c) == c \in DOMAIN calls /\ calls[c].text = "both"

NoRoutineSeen(c) == \A f \in DOMAIN frames : frames[f].call # c

FixedAnswerState ==
    \A c \in DOMAIN calls : AskedBoth(c) =>
        /\ \A r \in DOMAIN routines : routines[r].owner # c
        /\ (calls[c].phase \notin {"queued", "classify"} /\ NoRoutineSeen(c)) =>
              /\ calls[c].answer \in BothAnswers
              /\ calls[c].out \in BothAnswers \cup {"pending"}

FixedAnswerStep ==
    \A c \in DOMAIN calls :
        (AskedBoth(c) /\ calls[c].phase = "classify" /\ calls'[c].phase # "classify"
           /\ convos[calls[c].user] = 0) =>
            /\ calls'[c].answer \in BothAnswers
            /\ convos' = convos
            /\ routines' = routines
            /\ frames' = frames

Results == {i \in DOMAIN drv.outs : ~drv.outs[i].rejected}

DoneIffFinished ==
    \A i \in Results :
        /\ drv.outs[i].done = drv.outs[i].isDone
        /\ drv.outs[i].atYield =>
              /\ ~drv.outs[i].done
              /\ drv.outs[i].value = drv.outs[i].raw

(* C39 for the yielded values that are not falsy. *)
DoneIffFinishedTruthy ==
    \A i \in Results :
        (drv.outs[i].isDone \/ Truthy(drv.outs[i].raw)) =>
            /\ drv.outs[i].done = drv.outs[i].isDone
            /\ drv.outs[i].atYield =>
                  /\ ~drv.outs[i].done
                  /\ drv.outs[i].value = drv.outs[i].raw

=============================================================================
